---- MODULE Spec2Model ----
(***************************************************************************)
(* Ingestion and hybrid retrieval of runbook-copilot.                      *)
(*                                                                         *)
(*   Spec            the upload route handler (POST /api/upload) serving   *)
(*                   two requests one after the other                     *)
(*   SpecConcurrent  the same handler when the second request may arrive   *)
(*                   while the first is still running                     *)
(*   SpecMigrate     Spec with the database schema changing under it       *)
(*   SpecRoute       the same handler serving one request alone, with the   *)
(*                   optional stages, failing log writes, hung awaits and  *)
(*                   a bulk insert that completes after its timeout        *)
(*   SpecSearch      searchRunbooks applied to rows returned by the store      *)
(*   SpecQuery       searchRunbooks with its query on a table of chunks    *)
(*   SpecChunk       chunkText, in both modes, applied to bounded texts    *)
(*   SpecRate        checkRateLimit called for two IPs as the clock runs   *)
(*   SpecEmbed       the batch loop of stage embed, batch by batch         *)
(***************************************************************************)
EXTENDS Integers, Sequences, FiniteSets, TLC

VARIABLES
    env,                    \* process.env: which settings are present
    hasConstraint,          \* the database has UNIQUE(documents.filename)
    cachedHasConstraint,    \* module variable of the upload route
    constraintCheckPromise, \* module variable: 0 (null) or an index into probes
    probes,                 \* the calls of checkUniqueConstraint so far, with their results
    documents,              \* table documents: set of [id, filename]
    chunks,                 \* table chunks: set of rows
    req,                    \* per upload request: the locals of its POST call
    sq,                     \* searchRunbooks: the inputs and the result
    ck,                     \* chunkText: the inputs and the result
    rl,                     \* checkRateLimit: the clock, rateLimitStore and the calls made
    em                      \* the batch loop of stage embed, batch by batch

vars == <<env, hasConstraint, cachedHasConstraint, constraintCheckPromise, probes,
          documents, chunks, req, sq, ck, rl, em>>

uploadVars == <<env, hasConstraint, cachedHasConstraint, constraintCheckPromise, probes,
                documents, chunks, req>>

(***************************************************************************)
(* Program constants of the upload route                                   *)
(***************************************************************************)
MAX_FILE_COUNT == 3
MAX_TOTAL_SIZE_MB == 10
MAX_TOTAL_SIZE_BYTES == MAX_TOTAL_SIZE_MB * 1024 * 1024
MAX_EXTRACTED_CHARS_PER_FILE == 150000
MAX_CHUNKS_PER_UPLOAD == 60
EMBEDDING_BATCH_SIZE == 100
EMBEDDING_CONCURRENCY == 2

(***************************************************************************)
(* Bounds of the model                                                     *)
(***************************************************************************)
\* files submitted beyond MAX_FILE_COUNT by an oversized request
MaxExtraFiles == 1
\* files of a request that runs while another request is running
MaxConcurrentFiles == 1

\* the upload requests, named by their requestId in order of arrival
Requests == {1, 2}

Min(a, b) == IF a < b THEN a ELSE b
Max(a, b) == IF a > b THEN a ELSE b

\* inputs: file names, sizes in bytes, and the number of chunks chunkText makes of a text
FileNames == { [base |-> "a", ext |-> ".md"],
               [base |-> "b", ext |-> ".pdf"],
               [base |-> "c", ext |-> ".txt"] }
FileSizes == {0, 1, 11 * 1024 * 1024}
ChunkCounts == {1, MAX_CHUNKS_PER_UPLOAD + 1}
FileCounts == 0 .. MAX_FILE_COUNT + MaxExtraFiles
ConcurrentFileCounts == (0 .. Min(MaxConcurrentFiles, MAX_FILE_COUNT))
                          \cup (MAX_FILE_COUNT + 1 .. MAX_FILE_COUNT + MaxExtraFiles)

NoFile == [base |-> "", ext |-> ""]
\* a response body: stage is "" when the body has no stage field, message names
\* the stage of a "timeout at stage=..." message ("" for any other message),
\* stage_timings tells whether the body carries the stage timings
NoResponse ==
    [kind |-> "none", status |-> 0, code |-> "", stage |-> "", message |-> "",
     stage_timings |-> FALSE, total_chunks |-> 0,
     verified_searchable |-> FALSE, top_retrieval_preview |-> FALSE]

\* no bulk insert of the request is running on after its stage timed out
NoInsert == [state |-> "none", documentId |-> 0, fileNo |-> 0, n |-> 0, all |-> << >>]

\* the locals of one POST call before it starts
IdleReq ==
    [ pc |-> "idle", requestId |-> 0, nFiles |-> 0, fileNo |-> 0,
      filename |-> NoFile, totalSize |-> 0, totalChunksCreated |-> 0,
      processedFiles |-> << >>, documentId |-> 0,
      extractedLen |-> 0, textLen |-> 0,
      nChunks |-> 0, chunksToProcess |-> 0, chunksSkipped |-> 0,
      batchNo |-> 0, allEmbeddings |-> << >>, awaiting |-> 0,
      response |-> NoResponse,
      \* history: what this request has done so far
      extracted |-> FALSE, embedded |-> FALSE, written |-> FALSE,
      emptyFile |-> FALSE, badBatch |-> FALSE,
      blobFailed |-> FALSE, verify |-> "", timedOut |-> "",
      \* the row of upload_logs for this requestId ("none": no row), the calls
      \* of logUpload and updateUploadLog and the status last passed to the latter
      logRow |-> "none", logInserts |-> 0, logUpdates |-> 0, logStatus |-> "",
      \* the call a hung request awaits
      awaitingCall |-> "",
      \* the bulk insert that lost the race against the timer of db_insert
      lateInsert |-> NoInsert ]

Init ==
    /\ env \in [OPENAI_API_KEY : BOOLEAN, DATABASE_URL : BOOLEAN,
                BLOB_READ_WRITE_TOKEN : {FALSE}, ENABLE_VERIFY_SEARCH : {FALSE}]
    /\ hasConstraint \in BOOLEAN
    /\ cachedHasConstraint = "null"
    /\ constraintCheckPromise = 0
    /\ probes = << >>
    /\ documents = {}
    /\ chunks = {}
    /\ req = [s \in Requests |-> IdleReq]
    /\ sq = [pc |-> "off"]
    /\ ck = [pc |-> "off"]
    /\ rl = [pc |-> "off"]
    /\ em = [pc |-> "off"]

SumChunks_last(pf, k) == IF k = 0 THEN 0 ELSE pf[k].chunks

RECURSIVE SumChunks(_, _)
\* the chunks of the first k entries of a files list
SumChunks(pf, k) == IF k = 0 THEN 0 ELSE pf[k].chunks + SumChunks(pf, k - 1)

(***************************************************************************)
(* Responses                                                               *)
(***************************************************************************)
\* an error body. The early returns have no stage and no stage_timings; the
\* outer catch sends stage ("unknown" unless the message matches
\* /timeout at stage=([^\s]+)/) and the stage timings
ErrorResponse(status, code, stage) ==
    [NoResponse EXCEPT !.kind = "error", !.status = status, !.code = code,
                       !.stage = stage,
                       !.message = IF stage \in {"", "unknown"} THEN "" ELSE stage,
                       !.stage_timings = stage # ""]

SuccessResponse ==
    [NoResponse EXCEPT !.kind = "success", !.status = 200, !.stage_timings = TRUE]

\* a request served alone: the only one of the run
Alone(rq, s) == \A t \in Requests \ {s} : rq[t].pc = "absent"

\* whether a write to upload_logs succeeds: never without DATABASE_URL; a
\* failing write with the database configured is explored for a request
\* served alone
LogOutcomes(rq, s) ==
    IF ~env.DATABASE_URL THEN {FALSE}
    ELSE IF Alone(rq, s) THEN BOOLEAN ELSE {TRUE}

\* logUpload(requestId, 0, 'started', ...): INSERT ... ON CONFLICT DO NOTHING
logUpload(r, ok) ==
    [r EXCEPT !.logInserts = @ + 1,
              !.logRow = IF ok /\ @ = "none" THEN "started" ELSE @]

updateUploadLog_none(r, status, ok) == r
\* updateUploadLog(requestId, latency, status, ...): UPDATE ... WHERE request_id
updateUploadLog(r, status, ok) ==
    [r EXCEPT !.logUpdates = @ + 1, !.logStatus = status,
              !.logRow = IF ok /\ @ # "none" THEN status ELSE @]

\* what is left of a POST call once it has returned: the response and the history
\* of the request; the locals of the call no longer exist
Returned(r, response) ==
    [IdleReq EXCEPT !.pc = "done", !.requestId = r.requestId, !.nFiles = r.nFiles,
                    !.response = response,
                    !.processedFiles = IF response.kind = "success"
                                       THEN r.processedFiles ELSE << >>,
                    !.extracted = r.extracted, !.embedded = r.embedded,
                    !.written = r.written, !.emptyFile = r.emptyFile,
                    !.badBatch = r.badBatch, !.blobFailed = r.blobFailed,
                    !.verify = r.verify, !.timedOut = r.timedOut,
                    !.logRow = r.logRow, !.logInserts = r.logInserts,
                    !.logUpdates = r.logUpdates, !.logStatus = r.logStatus,
                    !.lateInsert = r.lateInsert]

\* an early return of POST with an error body; rq holds the locals at the return
Respond(rq, s, status, code) ==
    \E logOk \in LogOutcomes(rq, s) :
        req' = [rq EXCEPT ![s] = Returned(updateUploadLog(rq[s], "error", logOk),
                                          ErrorResponse(status, code, ""))]

\* the catch of stage parse_form when the timer won: the early PARSE_ERROR
\* body, whose message is the timeout error's message
ParseTimeout(rq, s) ==
    \E logOk \in LogOutcomes(rq, s) :
        LET r == [rq[s] EXCEPT !.timedOut = "parse_form"]
        IN  req' = [rq EXCEPT ![s] =
                      Returned(updateUploadLog(r, "error", logOk),
                               [ErrorResponse(400, "PARSE_ERROR", "")
                                   EXCEPT !.message = "parse_form"])]

\* a per-file catch that logs the error and goes on with the next file
FileError_continue(rq, s, stage) ==
    req' = [rq EXCEPT ![s].pc = IF rq[s].fileNo < rq[s].nFiles THEN "file" ELSE "finish",
                      ![s].fileNo = IF rq[s].fileNo < rq[s].nFiles THEN @ + 1 ELSE @]

\* a per-file catch that ends the loop and answers with the files processed so far
FileError_partial(rq, s, stage) ==
    \E logOk \in LogOutcomes(rq, s) :
        LET r == [rq[s] EXCEPT !.timedOut = IF stage = "unknown" THEN @ ELSE stage]
        IN  req' = [rq EXCEPT ![s] =
                      Returned(updateUploadLog(r, "success", logOk),
                               [SuccessResponse EXCEPT
                                  !.total_chunks = SumChunks(r.processedFiles,
                                                             Len(r.processedFiles))])]

\* a throw inside the file loop: wrapped by the per-file catch, rethrown, and
\* answered by the outer catch with error.name and the stage of a timeout
FileError(rq, s, stage) ==
    \E logOk \in LogOutcomes(rq, s) :
        LET r == [rq[s] EXCEPT !.timedOut = IF stage = "unknown" THEN @ ELSE stage]
        IN  req' = [rq EXCEPT ![s] = Returned(updateUploadLog(r, "error", logOk),
                                              ErrorResponse(500, "Error", stage))]

(***************************************************************************)
(* DocumentStore (lib/indexing.ts)                                         *)
(***************************************************************************)
DocIds(filename) == { d.id : d \in { x \in documents : x.filename = filename } }

\* INSERT ... ON CONFLICT (filename) DO UPDATE SET filename = EXCLUDED.filename
\* RETURNING id: the table after the statement
insertDocument(filename) ==
    IF DocIds(filename) # {}
    THEN documents
    ELSE documents \cup { [id |-> Cardinality(documents) + 1, filename |-> filename] }

\* the id the statement returns: the row that now carries the filename
ReturnedId(docs, before, filename) ==
    IF docs = before
    THEN CHOOSE i \in DocIds(filename) : TRUE
    ELSE CHOOSE i \in { d.id : d \in docs \ before } : TRUE

deleteChunksForDocument_others(documentId) ==
    { c \in chunks : c.document_id = documentId }
deleteChunksForDocument_none(documentId) == chunks
\* DELETE FROM chunks WHERE document_id = $1
deleteChunksForDocument(documentId) ==
    { c \in chunks : c.document_id # documentId }

\* allEmbeddings[i] of a JS array: undefined (stored as NULL, here -1) beyond its end
EmbeddingAt(all, i) == IF i + 1 <= Len(all) THEN all[i + 1] ELSE -1

insertChunksBulk_reversed(documentId, upload, fileNo, n, all) ==
    chunks \cup { [ document_id |-> documentId, chunk_index |-> i,
                    upload |-> upload, fileNo |-> fileNo, text |-> i,
                    embedding |-> EmbeddingAt(all, n - 1 - i) ] : i \in 0 .. n - 1 }

\* chunksData of the route and the rows insertChunksBulk adds for it: row i holds
\* chunk i of this file of this upload (a text is named by its index in
\* chunksToProcess) and the vector allEmbeddings[i]
insertChunksBulk(documentId, upload, fileNo, n, all) ==
    chunks \cup { [ document_id |-> documentId, chunk_index |-> i,
                    upload |-> upload, fileNo |-> fileNo, text |-> i,
                    embedding |-> EmbeddingAt(all, i) ] : i \in 0 .. n - 1 }

(***************************************************************************)
(* EmbeddingClient: batches of the route and what the provider returns     *)
(***************************************************************************)
NumBatches(n) == (n + EMBEDDING_BATCH_SIZE - 1) \div EMBEDDING_BATCH_SIZE
BatchStart(b) == b * EMBEDDING_BATCH_SIZE
BatchLen(n, b) == Min(EMBEDDING_BATCH_SIZE, n - BatchStart(b))

GroupLast_all(first, n) == NumBatches(n) - 1

\* batches.slice(i, i + EMBEDDING_CONCURRENCY): the last batch of the group
\* that starts at batch first
GroupLast(first, n) == Min(first + EMBEDDING_CONCURRENCY, NumBatches(n)) - 1

Range(from, len) == [k \in 1 .. len |-> from + k - 1]

\* response.data.map(item => item.embedding) for the texts from .. from+len-1; a
\* vector is named by the index of the text it embeds, -1 for a vector of no text
ProviderVectors(from, len, outcome) ==
    CASE outcome = "ok"    -> Range(from, len)
      [] outcome = "short" -> Range(from + 1, len - 1)
      [] outcome = "long"  -> <<-1>> \o Range(from, len)

RECURSIVE Flatten(_, _, _, _)
\* for (const embeddings of batchResults) allEmbeddings.push(...embeddings)
Flatten(n, b, last, out) ==
    IF b > last THEN << >>
    ELSE ProviderVectors(BatchStart(b), BatchLen(n, b), out[b])
           \o Flatten(n, b + 1, last, out)

(***************************************************************************)
(* The upload route: POST                                                  *)
(***************************************************************************)
isMarkdown(f) == f.ext \in {".md", ".MD", ".markdown"}
isPDF(f) == f.ext \in {".pdf", ".PDF"}

TooManyFiles_off(n) == FALSE
TooManyFiles(n) == n > MAX_FILE_COUNT

Allowed_whole(total) == MAX_CHUNKS_PER_UPLOAD
\* const allowed = MAX_CHUNKS_PER_UPLOAD - totalChunksCreated
Allowed(total) == MAX_CHUNKS_PER_UPLOAD - total

\* the length of chunks.slice(0, end) of an array of n chunks
SliceLen(n, end) == IF end >= 0 THEN Min(n, end) ELSE Max(0, n + end)

OverCap_offByOne(total, n) == total + n > MAX_CHUNKS_PER_UPLOAD + 1
\* if (totalChunksCreated + chunks.length > MAX_CHUNKS_PER_UPLOAD)
OverCap(total, n) == total + n > MAX_CHUNKS_PER_UPLOAD

CountMismatch_off(all, n) == FALSE
\* if (allEmbeddings.length !== chunksToProcess.length) throw
CountMismatch(all, n) == Len(all) # n

Others(s) == Requests \ {s}

\* the schema check of a request whose cached result is known
AfterProbe(s, cached, r, logOk) ==
    IF cached = "false"
    THEN Returned(updateUploadLog(r, "error", logOk),
                  ErrorResponse(500, "SCHEMA_ERROR", ""))
    ELSE [r EXCEPT !.pc = "parse_form"]

NoProbeInFlight_always(promise) == TRUE

\* if (!constraintCheckPromise): 0 stands for null, i for the i-th probe started
NoProbeInFlight(promise) == promise = 0

\* POST from its first line to the await of the constraint probe
StartRequest(s) ==
    /\ req[s].pc = "idle"
    /\ \E tokenOk \in BOOLEAN, insertOk \in LogOutcomes(req, s),
          logOk \in LogOutcomes(req, s) :
       LET r0 == logUpload([IdleReq EXCEPT !.requestId = s], insertOk)
           fail(st, code) == Returned(updateUploadLog(r0, "error", logOk),
                                      ErrorResponse(st, code, ""))
       IN
           IF ~env.OPENAI_API_KEY \/ ~env.DATABASE_URL
           THEN /\ req' = [req EXCEPT ![s] = fail(500, "CONFIG_ERROR")]
                /\ UNCHANGED <<constraintCheckPromise, probes>>
           ELSE IF ~tokenOk
           THEN /\ req' = [req EXCEPT ![s] = fail(401, "UPLOAD_LOCKED")]
                /\ UNCHANGED <<constraintCheckPromise, probes>>
           ELSE IF cachedHasConstraint = "null"
           THEN IF NoProbeInFlight(constraintCheckPromise)
                THEN /\ probes' = Append(probes, "pending")
                     /\ constraintCheckPromise' = Len(probes) + 1
                     /\ req' = [req EXCEPT ![s] =
                                 [r0 EXCEPT !.pc = "await_probe",
                                            !.awaiting = Len(probes) + 1]]
                ELSE /\ req' = [req EXCEPT ![s] =
                                 [r0 EXCEPT !.pc = "await_probe",
                                            !.awaiting = constraintCheckPromise]]
                     /\ UNCHANGED <<constraintCheckPromise, probes>>
           ELSE /\ req' = [req EXCEPT ![s] = AfterProbe(s, cachedHasConstraint, r0, logOk)]
                /\ UNCHANGED <<constraintCheckPromise, probes>>
    /\ UNCHANGED <<env, hasConstraint, cachedHasConstraint, documents, chunks, sq, ck, rl, em>>

\* a request arrives when every earlier request has been answered
Begin(s) ==
    /\ \A t \in Requests : t < s => req[t].pc = "done"
    /\ StartRequest(s)

\* a request arrives while an earlier request is still running
BeginConcurrent(s) ==
    /\ \A t \in Requests : t < s => req[t].pc # "idle"
    /\ \E t \in Requests : t < s /\ req[t].pc # "done"
    /\ StartRequest(s)

\* checkUniqueConstraint: the catalog query answers, or fails and is mapped to false
ProbeResolve ==
    /\ \E i \in 1 .. Len(probes) :
         /\ probes[i] = "pending"
         /\ \E queryOk \in BOOLEAN :
              probes' = [probes EXCEPT ![i] =
                           IF queryOk /\ hasConstraint THEN "true" ELSE "false"]
    /\ UNCHANGED <<env, hasConstraint, cachedHasConstraint, constraintCheckPromise,
                   documents, chunks, req, sq, ck, rl, em>>

Cached_trueOnly(result) == IF result = "true" THEN "true" ELSE "null"

\* cachedHasConstraint = await constraintCheckPromise: whatever the probe
\* returned is kept
Cached(result) == result

\* cachedHasConstraint = await constraintCheckPromise; constraintCheckPromise = null
ProbeAwaited(s) ==
    /\ req[s].pc = "await_probe"
    /\ probes[req[s].awaiting] # "pending"
    /\ cachedHasConstraint' = Cached(probes[req[s].awaiting])
    /\ constraintCheckPromise' = 0
    /\ \E logOk \in LogOutcomes(req, s) :
         req' = [req EXCEPT ![s] = AfterProbe(s, probes[req[s].awaiting], req[s], logOk)]
    /\ UNCHANGED <<env, hasConstraint, probes, documents, chunks, sq, ck, rl, em>>

\* stage parse_form, then the file-count checks, for a form with n \in counts files
ParseFormOf(s, counts) ==
    /\ req[s].pc = "parse_form"
    /\ \E outcome \in {"ok", "error", "timeout"}, n \in counts :
         IF outcome = "error" THEN Respond(req, s, 400, "PARSE_ERROR")
         ELSE IF outcome = "timeout" THEN ParseTimeout(req, s)
         ELSE IF n = 0 THEN Respond(req, s, 400, "VALIDATION_ERROR")
         ELSE IF TooManyFiles(n)
              THEN Respond([req EXCEPT ![s].nFiles = n], s, 400, "VALIDATION_ERROR")
         ELSE req' = [req EXCEPT ![s].pc = "file", ![s].nFiles = n, ![s].fileNo = 1]
    /\ UNCHANGED <<env, hasConstraint, cachedHasConstraint, constraintCheckPromise,
                   probes, documents, chunks, sq, ck, rl, em>>

ParseForm(s) ==
    /\ \A t \in Others(s) : req[t].pc \in {"idle", "done", "absent"}
    /\ ParseFormOf(s, FileCounts)

ParseFormConcurrent(s) ==
    /\ \E t \in Others(s) : req[t].pc \notin {"idle", "done", "absent"}
    /\ ParseFormOf(s, ConcurrentFileCounts)

\* top of the file loop: the type check, stage read_file_or_download_blob, the
\* empty-buffer check and the cumulative size check
ReadFile(s) ==
    /\ req[s].pc = "file"
    /\ \E f \in FileNames, outcome \in {"ok", "error", "timeout"}, size \in FileSizes :
         LET r == [req EXCEPT ![s].filename = f]
         IN IF ~isMarkdown(f) /\ ~isPDF(f) THEN FileError(r, s, "unknown")
            ELSE IF outcome = "error" THEN FileError(r, s, "unknown")
            ELSE IF outcome = "timeout" THEN FileError(r, s, "read_file_or_download_blob")
            ELSE IF size = 0
                 THEN FileError([r EXCEPT ![s].emptyFile = TRUE], s, "unknown")
            ELSE IF req[s].totalSize + size > MAX_TOTAL_SIZE_BYTES
                 THEN Respond([r EXCEPT ![s].totalSize = @ + size], s,
                              400, "VALIDATION_ERROR")
            ELSE req' = [r EXCEPT ![s].pc = IF env.BLOB_READ_WRITE_TOKEN
                                            THEN "blob" ELSE "extract",
                                  ![s].totalSize = @ + size]
    /\ UNCHANGED <<env, hasConstraint, cachedHasConstraint, constraintCheckPromise,
                   probes, documents, chunks, sq, ck, rl, em>>

\* a failed blob put is rethrown to the per-file catch
BlobFailure_fatal(rq, s, outcome) ==
    FileError(rq, s, IF outcome = "timeout" THEN "blob_put" ELSE "unknown")
\* catch (blobError): logged, and the file goes on to stage extract_text
BlobFailure(rq, s, outcome) ==
    req' = [rq EXCEPT ![s].pc = "extract", ![s].blobFailed = TRUE]

\* the optional put of the file to the blob store, under withTimeout
BlobPut(s) ==
    /\ req[s].pc = "blob"
    /\ \E outcome \in {"ok", "error", "timeout"} :
         IF outcome = "ok" THEN req' = [req EXCEPT ![s].pc = "extract"]
         ELSE BlobFailure(req, s, outcome)
    /\ UNCHANGED <<env, hasConstraint, cachedHasConstraint, constraintCheckPromise,
                   probes, documents, chunks, sq, ck, rl, em>>

\* the lengths of the text extracted from a file; the lengths around the cap
\* are explored for a request served alone
ExtractedLengths(rq, s) ==
    IF Alone(rq, s)
    THEN {1, MAX_EXTRACTED_CHARS_PER_FILE, MAX_EXTRACTED_CHARS_PER_FILE + 1}
    ELSE {MAX_EXTRACTED_CHARS_PER_FILE}

Truncate_none(len) == len

\* if (text.length > MAX_EXTRACTED_CHARS_PER_FILE) text = text.substring(0, MAX...):
\* the length of the text that goes on
Truncate(len) == Min(len, MAX_EXTRACTED_CHARS_PER_FILE)

\* stage extract_text, the character cap and the empty-text check; the text is
\* given by its length and by the number of chunks chunkText makes of what is
\* left of it after the cap (0: blank text); a chunk has at least one character
ExtractText(s) ==
    /\ req[s].pc = "extract"
    /\ \E outcome \in {"ok", "bad_header", "error", "timeout"},
          n \in ChunkCounts \cup {0}, len \in ExtractedLengths(req, s) :
         LET r == [req EXCEPT ![s].extracted = TRUE, ![s].nChunks = n,
                              ![s].extractedLen = len,
                              ![s].textLen = Truncate(len)]
         IN /\ n <= Truncate(len)
            /\ IF isPDF(req[s].filename) /\ outcome = "bad_header"
               THEN FileError(req, s, "unknown")
               ELSE IF isPDF(req[s].filename) /\ outcome = "error"
               THEN FileError(req, s, "unknown")
               ELSE IF isPDF(req[s].filename) /\ outcome = "timeout"
               THEN FileError(req, s, "extract_text")
               ELSE IF n = 0 THEN FileError(r, s, "unknown")
               ELSE req' = [r EXCEPT ![s].pc = "upsert"]
    /\ UNCHANGED <<env, hasConstraint, cachedHasConstraint, constraintCheckPromise,
                   probes, documents, chunks, sq, ck, rl, em>>

\* the outcomes of an await that is not raced against a timer: the call
\* returns, throws, or never settles (explored for a request served alone)
UntimedOutcomes(rq, s) ==
    IF Alone(rq, s) THEN {"ok", "error", "hang"} ELSE {"ok", "error"}

\* a POST call whose await never settles: it stays at the await for ever
Hung(r, call) == [Returned(r, NoResponse) EXCEPT !.pc = "hung", !.awaitingCall = call]

\* documentId = await insertDocument(filename)
UpsertDocument(s) ==
    /\ req[s].pc = "upsert"
    /\ \E outcome \in UntimedOutcomes(req, s) :
         IF outcome = "error"
         THEN /\ FileError(req, s, "unknown")
              /\ UNCHANGED documents
         ELSE IF outcome = "hang"
         THEN /\ req' = [req EXCEPT ![s] = Hung(req[s], "insert_document")]
              /\ UNCHANGED documents
         ELSE /\ documents' = insertDocument(req[s].filename)
              /\ req' = [req EXCEPT ![s].pc = "delete",
                           ![s].written = TRUE,
                           ![s].documentId =
                               ReturnedId(documents', documents, req[s].filename)]
    /\ UNCHANGED <<env, hasConstraint, cachedHasConstraint, constraintCheckPromise,
                   probes, chunks, sq, ck, rl, em>>

\* the request's locals once stage embed has ended without a rejected batch
AfterEmbed(rq, s) ==
    IF CountMismatch(rq[s].allEmbeddings, rq[s].chunksToProcess)
    THEN FileError(rq, s, "unknown")
    ELSE req' = [rq EXCEPT ![s].pc = "insert"]

\* await deleteChunksForDocument(documentId), then stage chunk and the chunk cap
DeleteOldChunks(s) ==
    /\ req[s].pc = "delete"
    /\ \E outcome \in UntimedOutcomes(req, s) :
         IF outcome = "error"
         THEN /\ FileError(req, s, "unknown")
              /\ UNCHANGED chunks
         ELSE IF outcome = "hang"
         THEN /\ req' = [req EXCEPT ![s] = Hung(req[s], "delete_chunks")]
              /\ UNCHANGED chunks
         ELSE LET n == req[s].nChunks
                  total == req[s].totalChunksCreated
                  over == OverCap(total, n)
                  toProcess == IF over THEN SliceLen(n, Allowed(total)) ELSE n
                  skipped == IF over THEN n - Allowed(total) ELSE 0
                  r == [req EXCEPT ![s].written = TRUE,
                          ![s].chunksToProcess = toProcess,
                          ![s].chunksSkipped = skipped,
                          ![s].batchNo = 0,
                          ![s].allEmbeddings = << >>]
              IN /\ chunks' = deleteChunksForDocument(req[s].documentId)
                 /\ IF NumBatches(toProcess) = 0
                    THEN AfterEmbed(r, s)
                    ELSE req' = [r EXCEPT ![s].pc = "embed"]
    /\ UNCHANGED <<env, hasConstraint, cachedHasConstraint, constraintCheckPromise,
                   probes, documents, sq, ck, rl, em>>

\* one turn of the concurrency loop of stage embed: Promise.all over the next
\* EMBEDDING_CONCURRENCY batches, flattened in batch order
EmbedGroup(s) ==
    /\ req[s].pc = "embed"
    /\ LET n == req[s].chunksToProcess
           first == req[s].batchNo
           last == GroupLast(first, n)
           called == [req EXCEPT ![s].embedded = TRUE]
       IN \E failure \in {"none", "error", "timeout"},
             out \in [first .. last -> {"ok", "short", "long"}] :
            IF failure = "error" THEN FileError(called, s, "unknown")
            ELSE IF failure = "timeout" THEN FileError(called, s, "embed")
            ELSE LET r == [called EXCEPT
                             ![s].allEmbeddings = @ \o Flatten(n, first, last, out),
                             ![s].batchNo = @ + EMBEDDING_CONCURRENCY,
                             ![s].badBatch = @ \/ (\E b \in first .. last : out[b] # "ok")]
                 IN IF first + EMBEDDING_CONCURRENCY < NumBatches(n)
                    THEN req' = r
                    ELSE AfterEmbed(r, s)
    /\ UNCHANGED <<env, hasConstraint, cachedHasConstraint, constraintCheckPromise,
                   probes, documents, chunks, sq, ck, rl, em>>

Abandoned_cancelled(rq, s) == NoInsert

\* withTimeout only races the call against a timer: when the timer wins the
\* call runs on. What the bulk insert of the current file still has to do
\* (explored for a request served alone; an empty insert returns at once)
Abandoned(rq, s) ==
    IF Alone(rq, s) /\ rq[s].chunksToProcess > 0
    THEN [state |-> "pending", documentId |-> rq[s].documentId,
          fileNo |-> rq[s].fileNo, n |-> rq[s].chunksToProcess,
          all |-> rq[s].allEmbeddings]
    ELSE NoInsert

\* stage db_insert, then processedFiles.push and the next turn of the file loop
InsertChunks(s) ==
    /\ req[s].pc = "insert"
    /\ \E outcome \in {"ok", "error", "timeout"} :
         IF outcome = "error"
         THEN /\ FileError(req, s, "unknown")
              /\ UNCHANGED chunks
         ELSE IF outcome = "timeout"
         THEN /\ FileError([req EXCEPT ![s].lateInsert = Abandoned(req, s)],
                            s, "db_insert")
              /\ UNCHANGED chunks
         ELSE LET n == req[s].chunksToProcess
                  more == req[s].fileNo < req[s].nFiles
              IN /\ chunks' = insertChunksBulk(req[s].documentId, req[s].requestId,
                                               req[s].fileNo, n, req[s].allEmbeddings)
                 /\ req' = [req EXCEPT
                      ![s].written = @ \/ n > 0,
                      ![s].totalChunksCreated = @ + n,
                      ![s].processedFiles = Append(@,
                          [ filename |-> req[s].filename, chunks |-> n,
                            chunks_skipped |-> req[s].chunksSkipped,
                            produced |-> req[s].nChunks, fileNo |-> req[s].fileNo,
                            chars |-> req[s].textLen,
                            extracted_chars |-> req[s].extractedLen ]),
                      ![s].fileNo = IF more THEN @ + 1 ELSE @,
                      ![s].pc = IF more THEN "file"
                                ELSE IF env.ENABLE_VERIFY_SEARCH THEN "verify"
                                ELSE "finish"]
    /\ UNCHANGED <<env, hasConstraint, cachedHasConstraint, constraintCheckPromise,
                   probes, documents, sq, ck, rl, em>>

\* the bulk insert whose result was discarded completes after all
LateInsert(s) ==
    /\ req[s].lateInsert.state = "pending"
    /\ LET li == req[s].lateInsert
       IN  chunks' = insertChunksBulk(li.documentId, req[s].requestId, li.fileNo,
                                      li.n, li.all)
    /\ req' = [req EXCEPT ![s].lateInsert.state = "landed"]
    /\ UNCHANGED <<env, hasConstraint, cachedHasConstraint, constraintCheckPromise,
                   probes, documents, sq, ck, rl, em>>

\* the optional stage verify_search, under withTimeout: searchRunbooks scoped
\* to the inserted filenames returns rows of them, returns none, throws, or
\* the timer wins; the catch logs the failure
VerifySearch(s) ==
    /\ req[s].pc = "verify"
    /\ \E outcome \in {"found", "empty", "error", "timeout"} :
         req' = [req EXCEPT ![s].pc = "finish", ![s].verify = outcome]
    /\ UNCHANGED <<env, hasConstraint, cachedHasConstraint, constraintCheckPromise,
                   probes, documents, chunks, sq, ck, rl, em>>

\* after the file loop: the log update and the success response
Finish(s) ==
    /\ req[s].pc = "finish"
    /\ \E logOk \in LogOutcomes(req, s) :
         req' = [req EXCEPT ![s] =
                   Returned(updateUploadLog(req[s], "success", logOk),
                            [SuccessResponse EXCEPT
                               !.total_chunks =
                                   SumChunks(req[s].processedFiles,
                                             Len(req[s].processedFiles)),
                               !.verified_searchable = req[s].verify = "found",
                               !.top_retrieval_preview = req[s].verify = "found"])]
    /\ UNCHANGED <<env, hasConstraint, cachedHasConstraint, constraintCheckPromise,
                   probes, documents, chunks, sq, ck, rl, em>>

Next ==
    \/ \E s \in Requests : Begin(s)
    \/ ProbeResolve
    \/ \E s \in Requests : ProbeAwaited(s)
    \/ \E s \in Requests : ParseForm(s)
    \/ \E s \in Requests : ReadFile(s)
    \/ \E s \in Requests : ExtractText(s)
    \/ \E s \in Requests : UpsertDocument(s)
    \/ \E s \in Requests : DeleteOldChunks(s)
    \/ \E s \in Requests : EmbedGroup(s)
    \/ \E s \in Requests : InsertChunks(s)
    \/ \E s \in Requests : Finish(s)

Spec == Init /\ [][Next]_vars

\* the schema changes under the running process: the UNIQUE constraint on
\* documents.filename is added (npm run db:migrate) or dropped
Migrate ==
    /\ hasConstraint' = ~hasConstraint
    /\ UNCHANGED <<env, cachedHasConstraint, constraintCheckPromise, probes,
                   documents, chunks, req, sq, ck, rl, em>>

NextMigrate == Next \/ Migrate

SpecMigrate == Init /\ [][NextMigrate]_vars

NextConcurrent ==
    \/ Next
    \/ \E s \in Requests : BeginConcurrent(s)
    \/ \E s \in Requests : ParseFormConcurrent(s)

SpecConcurrent == Init /\ [][NextConcurrent]_vars

\* one request served alone, with the optional blob store and verification
\* search configured or not, failing log writes and awaits that never settle
InitRoute ==
    /\ env \in [OPENAI_API_KEY : BOOLEAN, DATABASE_URL : BOOLEAN,
                BLOB_READ_WRITE_TOKEN : BOOLEAN, ENABLE_VERIFY_SEARCH : BOOLEAN]
    /\ hasConstraint \in BOOLEAN
    /\ cachedHasConstraint = "null"
    /\ constraintCheckPromise = 0
    /\ probes = << >>
    /\ documents = {}
    /\ chunks = {}
    /\ req = [s \in Requests |-> IF s = 1 THEN IdleReq
                                  ELSE [IdleReq EXCEPT !.pc = "absent"]]
    /\ sq = [pc |-> "off"]
    /\ ck = [pc |-> "off"]
    /\ rl = [pc |-> "off"]
    /\ em = [pc |-> "off"]

NextRoute ==
    \/ Next
    \/ \E s \in Requests : BlobPut(s)
    \/ \E s \in Requests : VerifySearch(s)
    \/ \E s \in Requests : LateInsert(s)

SpecRoute == InitRoute /\ [][NextRoute]_vars

(***************************************************************************)
(* Properties of the upload route                                          *)
(***************************************************************************)
Done(s) == req[s].pc = "done"
Succeeded(s) == Done(s) /\ req[s].response.kind = "success"
Failed(s) == Done(s) /\ req[s].response.kind = "error"

DocRows(f) == { d \in documents : d.filename = f }
ChunkRows(f) == { c \in chunks : c.document_id \in DocIds(f) }

\* the entries of a response's files for filename f, and the last of them
EntriesOf(s, f) ==
    { k \in 1 .. Len(req[s].processedFiles) : req[s].processedFiles[k].filename = f }
LastEntryOf(s, f) ==
    CHOOSE k \in EntriesOf(s, f) : \A j \in EntriesOf(s, f) : j <= k

\* t returned with success before s arrived, and s succeeded too
RanAfter(s, t) == t < s /\ Succeeded(s) /\ Succeeded(t)

\* C1: after two uploads of the same filename, one after the other and both
\* successful, the store holds exactly one document row for the filename and its
\* chunk rows are exactly the second upload's chunks: every row comes from the
\* second upload's (last) file of that name, and each index 0..n2-1 occurs once.
C1_IdempotentReupload ==
    \A s \in Requests, t \in Requests, f \in FileNames :
        (RanAfter(s, t) /\ EntriesOf(s, f) # {} /\ EntriesOf(t, f) # {}) =>
            LET e == req[s].processedFiles[LastEntryOf(s, f)]
            IN /\ Cardinality(DocRows(f)) = 1
               /\ \A c \in ChunkRows(f) :
                    /\ c.upload = req[s].requestId
                    /\ c.fileNo = e.fileNo
                    /\ c.chunk_index \in 0 .. e.chunks - 1
               /\ \A i \in 0 .. e.chunks - 1 :
                    Cardinality({ c \in ChunkRows(f) : c.chunk_index = i }) = 1

\* C1 witness: a second upload of a filename has succeeded after a first one that
\* had stored more chunks for it.
C1_Witness ==
    \E s \in Requests, t \in Requests, f \in FileNames :
        /\ RanAfter(s, t) /\ EntriesOf(s, f) # {} /\ EntriesOf(t, f) # {}
        /\ req[s].processedFiles[LastEntryOf(s, f)].chunks
             < req[t].processedFiles[LastEntryOf(t, f)].chunks

\* C2 (as claimed): in every reachable state, concurrent uploads of one filename
\* included, no two chunk rows of one document share a chunkIndex.
C2_UniqueChunkIndex ==
    \A c \in chunks :
        Cardinality({ d \in chunks : d.document_id = c.document_id
                                     /\ d.chunk_index = c.chunk_index }) = 1

\* C3 (as claimed): a request that ends with a config, schema or validation error
\* has extracted, embedded and written nothing.
C3_EagerChecks ==
    \A s \in Requests :
        (Failed(s) /\ req[s].response.code
                        \in {"CONFIG_ERROR", "SCHEMA_ERROR", "VALIDATION_ERROR"}) =>
            /\ ~req[s].extracted
            /\ ~req[s].embedded
            /\ ~req[s].written

\* C4: a request whose form holds more than MAX_FILE_COUNT files returns one
\* VALIDATION_ERROR response (status 400) and has processed no file: nothing
\* extracted, no embedding call, no document upserted, no chunk deleted or inserted.
C4_OversizedBatch ==
    \A s \in Requests :
        req[s].nFiles > MAX_FILE_COUNT =>
            /\ Failed(s)
            /\ req[s].response.code = "VALIDATION_ERROR"
            /\ req[s].response.status = 400
            /\ ~req[s].extracted
            /\ ~req[s].embedded
            /\ ~req[s].written
            /\ \A c \in chunks : c.upload # req[s].requestId

\* C4 witness: a request with more than MAX_FILE_COUNT files has been answered.
C4_Witness ==
    \E s \in Requests : Done(s) /\ req[s].nFiles > MAX_FILE_COUNT

\* C5: the chunks a request embeds and inserts never exceed MAX_CHUNKS_PER_UPLOAD;
\* a file with more chunks than the remaining budget is processed with
\* chunks = remaining budget and chunks_skipped = produced - remaining > 0, and for
\* every processed file chunks + chunks_skipped is what the chunker produced.
C5_ChunkCap ==
    \A s \in Requests :
        LET pf == req[s].processedFiles
        IN /\ req[s].totalChunksCreated <= MAX_CHUNKS_PER_UPLOAD
           /\ Cardinality({ c \in chunks : c.upload = req[s].requestId })
                <= MAX_CHUNKS_PER_UPLOAD
           /\ req[s].pc \in {"embed", "insert"} =>
                /\ req[s].totalChunksCreated + req[s].chunksToProcess
                     <= MAX_CHUNKS_PER_UPLOAD
                /\ Len(req[s].allEmbeddings) <= MAX_CHUNKS_PER_UPLOAD + 1
           /\ \A k \in 1 .. Len(pf) :
                LET remaining == MAX_CHUNKS_PER_UPLOAD - SumChunks(pf, k - 1)
                IN /\ SumChunks(pf, k) <= MAX_CHUNKS_PER_UPLOAD
                   /\ pf[k].chunks + pf[k].chunks_skipped = pf[k].produced
                   /\ pf[k].produced > remaining =>
                        /\ pf[k].chunks = remaining
                        /\ pf[k].chunks_skipped = pf[k].produced - remaining
                        /\ pf[k].chunks_skipped > 0
                   /\ pf[k].produced <= remaining => pf[k].chunks_skipped = 0

\* C5 witness: a success response reports a file cut to a non-empty remaining
\* budget after an earlier file of the same request.
C5_Witness ==
    \E s \in Requests :
        /\ Succeeded(s)
        /\ \E k \in 2 .. Len(req[s].processedFiles) :
             /\ req[s].processedFiles[k].chunks_skipped > 0
             /\ req[s].processedFiles[k].chunks > 0

\* C6: a request in which a zero-byte file was read ends in an error response, at
\* once; no success response exists for it.
C6_EmptyFileRejected ==
    \A s \in Requests : req[s].emptyFile => Failed(s)

\* C6 witness: a zero-byte file was read and the request has been answered.
C6_Witness ==
    \E s \in Requests : Done(s) /\ req[s].emptyFile

\* C7: once the provider has returned a number of vectors different from the
\* number of texts of a batch, the file is never inserted and the request fails;
\* a file reaches the insert stage only with one vector per chunk, and every
\* stored row holds the vector of its own chunk.
C7_EmbeddingCount ==
    /\ \A s \in Requests :
         /\ req[s].badBatch => (req[s].pc = "embed" \/ Failed(s))
         /\ req[s].pc = "insert" =>
              /\ Len(req[s].allEmbeddings) = req[s].chunksToProcess
              /\ \A i \in 0 .. req[s].chunksToProcess - 1 :
                   EmbeddingAt(req[s].allEmbeddings, i) = i
    /\ \A c \in chunks : c.embedding = c.chunk_index

\* C7 witness: the provider returned a wrong number of vectors for a file whose
\* document was upserted, and the request has failed.
C7_Witness ==
    \E s \in Requests : Failed(s) /\ req[s].badBatch /\ req[s].written

\* C20: the rows a file's bulk insert adds are one per chunk to process, and
\* the row with chunk_index i holds the text of the i-th chunk and the vector
\* the provider computed for that text, however the file's batches were grouped.
C20_ChunkOrder ==
    [][\A s \in Requests :
         (req[s].pc = "insert" /\ chunks' # chunks) =>
             LET added == chunks' \ chunks
                 n == req[s].chunksToProcess
             IN  /\ Cardinality(added) = n
                 /\ \A i \in 0 .. n - 1 :
                        \E c \in added :
                            /\ c.chunk_index = i
                            /\ c.text = i
                            /\ c.embedding = c.text
                            /\ c.document_id = req[s].documentId]_vars

\* a file of at least two chunks has been embedded and inserted, and the
\* request has succeeded
C20_Witness ==
    \E s \in Requests :
        /\ Succeeded(s)
        /\ \E c, d \in chunks :
               /\ c.upload = s /\ d.upload = s
               /\ c.fileNo = d.fileNo
               /\ c.chunk_index = 0 /\ d.chunk_index = 1
               /\ c.embedding = 0 /\ d.embedding = 1

\* the chunk rows of document d
RowsOfDoc(rows, d) == { c \in rows : c.document_id = d }

\* C22: re-indexing deletes and inserts in two statements. From the delete to
\* the end of the bulk insert the file's document has no chunk rows, and a
\* request that fails in between (embedding failure, count mismatch, insert
\* failure, stage timeout) leaves it with none, whatever it held before.
C22_ZeroChunkWindow ==
    /\ [](\A s \in Requests :
            req[s].pc \in {"embed", "insert"} =>
                RowsOfDoc(chunks, req[s].documentId) = {})
    /\ [][\A s \in Requests :
            (req[s].pc \in {"delete", "embed", "insert"}
                 /\ req'[s].pc = "done" /\ req'[s].response.kind = "error"
                 /\ (req[s].pc = "delete" => chunks' # chunks)) =>
                RowsOfDoc(chunks', req[s].documentId) = {}]_vars

\* the first upload stored chunks for a filename; the second upload upserted
\* the same document, deleted its chunks and failed before its bulk insert:
\* the document is there with no chunk row
C22_Witness ==
    \E f \in FileNames :
        /\ Succeeded(1)
        /\ EntriesOf(1, f) # {}
        /\ req[1].processedFiles[LastEntryOf(1, f)].chunks > 0
        /\ Failed(2)
        /\ req[2].written
        /\ req[2].timedOut \in {"embed", "db_insert"}
        /\ DocRows(f) # {}
        /\ ChunkRows(f) = {}

FileLoopPcs == {"file", "blob", "extract", "upsert", "delete", "embed", "insert"}

\* C23: a per-file error ends the request with an error response. A request
\* that read an empty file or lost a stage to its timer has failed; a request
\* that leaves the file loop by returning has an error response and leaves
\* the store as it was (nothing is rolled back); once it has failed the
\* handler takes no further step, so no later file of it is processed.
C23_FileErrorFails ==
    /\ [](\A s \in Requests :
            (req[s].emptyFile \/ req[s].timedOut \notin {"", "parse_form"}) =>
                Failed(s))
    /\ [][\A s \in Requests :
            /\ (req[s].pc \in FileLoopPcs /\ req'[s].pc = "done") =>
                   /\ req'[s].response.kind = "error"
                   /\ documents' = documents
                   /\ chunks' = chunks
            /\ Failed(s) => req'[s] = req[s]]_vars

\* the first file of a request was stored, a later file timed out in stage
\* embed: the request has failed and the first file's rows are in the store
C23_Witness ==
    \E s \in Requests :
        /\ Failed(s)
        /\ req[s].nFiles >= 2
        /\ req[s].timedOut = "embed"
        /\ \E c \in chunks : c.upload = s /\ c.fileNo = 1

\* C24: a file whose extracted text is longer than the character cap goes on
\* with exactly the first MAX_EXTRACTED_CHARS_PER_FILE characters of it (a
\* shorter text goes on whole): the text chunked has that length, the chunks
\* made, embedded and stored for the file are chunks of that text, and a
\* file reported as processed was processed from it.
C24_TextCap ==
    \A s \in Requests :
        /\ req[s].pc \in {"upsert", "delete", "embed", "insert"} =>
               /\ req[s].textLen = IF req[s].extractedLen > MAX_EXTRACTED_CHARS_PER_FILE
                                   THEN MAX_EXTRACTED_CHARS_PER_FILE
                                   ELSE req[s].extractedLen
               /\ req[s].nChunks >= 1
               /\ req[s].nChunks <= req[s].textLen
        /\ req[s].pc \in {"embed", "insert"} =>
               /\ req[s].chunksToProcess <= req[s].nChunks
               /\ Len(req[s].allEmbeddings) <= req[s].textLen + 1
        /\ \A k \in 1 .. Len(req[s].processedFiles) :
               LET e == req[s].processedFiles[k]
               IN  /\ e.chars <= MAX_EXTRACTED_CHARS_PER_FILE
                   /\ e.chars <= e.extracted_chars
                   /\ e.extracted_chars <= MAX_EXTRACTED_CHARS_PER_FILE =>
                          e.chars = e.extracted_chars
                   /\ e.chunks + e.chunks_skipped <= e.chars
                   /\ Cardinality({ c \in chunks : c.upload = s /\ c.fileNo = e.fileNo })
                          <= e.chars

\* a file whose text was one character over the cap has been processed from
\* its first MAX_EXTRACTED_CHARS_PER_FILE characters and the request succeeded
C24_Witness ==
    \E s \in Requests :
        /\ Succeeded(s)
        /\ \E k \in 1 .. Len(req[s].processedFiles) :
               /\ req[s].processedFiles[k].extracted_chars > MAX_EXTRACTED_CHARS_PER_FILE
               /\ req[s].processedFiles[k].chars = MAX_EXTRACTED_CHARS_PER_FILE
               /\ req[s].processedFiles[k].chunks >= 1

\* C27: the cached probe result is never invalidated. Once the probe has
\* returned false to a request, the cached result is false and stays false and
\* no probe is started again, whatever the schema becomes; every
\* later request that passes the configuration check and the upload token gate
\* returns SCHEMA_ERROR at once, having read, extracted and written nothing.
C27_CacheNeverInvalidated ==
    [][(\E t \in Requests : Failed(t) /\ req[t].response.code = "SCHEMA_ERROR") =>
          /\ cachedHasConstraint = "false"
          /\ cachedHasConstraint' = "false"
          /\ probes' = probes
          /\ constraintCheckPromise' = constraintCheckPromise
          /\ documents' = documents
          /\ chunks' = chunks
          /\ \A s \in Requests :
                 (req[s].pc = "idle" /\ req'[s] # req[s]) =>
                     /\ req'[s].pc = "done"
                     /\ req'[s].response.kind = "error"
                     /\ req'[s].response.code \in {"UPLOAD_LOCKED", "SCHEMA_ERROR"}
                     /\ req'[s].nFiles = 0
                     /\ ~req'[s].extracted]_vars

\* the probe's query failed, or the constraint was added after the probe: the
\* constraint is there, the cached result is false, and the second request
\* has been answered SCHEMA_ERROR with one probe made in all
C27_Witness ==
    /\ hasConstraint
    /\ cachedHasConstraint = "false"
    /\ Len(probes) = 1
    /\ Failed(1) /\ req[1].response.code = "SCHEMA_ERROR"
    /\ Failed(2) /\ req[2].response.code = "SCHEMA_ERROR"

\* the files of request s processed when the chunk budget was already used up
Exhausted(s) ==
    { k \in 1 .. Len(req[s].processedFiles) :
          SumChunks(req[s].processedFiles, k - 1) >= MAX_CHUNKS_PER_UPLOAD }

\* C28: a file that comes when the request's chunk budget is used up is still
\* upserted and loses its old chunks: it is listed as processed with chunks 0
\* and chunks_skipped equal to the number of chunks made of it, and when the
\* file loop is over its document exists and has no chunk row.
C28_ExhaustedBudget ==
    \A s \in Requests :
        (req[s].pc = "finish" \/ Succeeded(s)) =>
            \A k \in Exhausted(s) :
                LET e == req[s].processedFiles[k]
                IN  /\ e.chunks = 0
                    /\ e.produced >= 1
                    /\ e.chunks_skipped = e.produced
                    /\ req[s].pc = "finish" =>
                           /\ DocRows(e.filename) # {}
                           /\ ChunkRows(e.filename) = {}

\* the first upload stored a chunk for a file; the second upload spent its
\* budget on another file and then processed that file again: the file is
\* reported with chunks 0 and its document has lost its chunk
C28_Witness ==
    \E f \in FileNames :
        /\ Succeeded(1)
        /\ EntriesOf(1, f) # {}
        /\ req[1].processedFiles[LastEntryOf(1, f)].chunks > 0
        /\ req[2].pc = "finish"
        /\ \E k \in Exhausted(2) :
               /\ req[2].processedFiles[k].filename = f
               /\ \A j \in 1 .. k - 1 : req[2].processedFiles[j].filename # f
        /\ DocRows(f) # {}
        /\ ChunkRows(f) = {}

\* C29: a stage timeout discards the result and does not cancel the call. When
\* the timer of db_insert wins, the request fails with stage db_insert while
\* its bulk insert runs on; when that insert completes, the file's rows are in
\* the store and the response and the upload log still say the request failed.
C29_TimeoutDoesNotCancel ==
    [][\A s \in Requests :
         /\ (req[s].pc = "insert" /\ req[s].chunksToProcess > 0 /\ Alone(req, s)
                /\ req'[s].pc = "done" /\ req'[s].timedOut = "db_insert") =>
                /\ req'[s].response.kind = "error"
                /\ req'[s].response.stage = "db_insert"
                /\ req'[s].logStatus = "error"
                /\ chunks' = chunks
                /\ req'[s].lateInsert.state = "pending"
                /\ req'[s].lateInsert.n = req[s].chunksToProcess
                /\ req'[s].lateInsert.documentId = req[s].documentId
         /\ (req[s].lateInsert.state = "pending"
                /\ req'[s].lateInsert.state = "landed") =>
                /\ Failed(s)
                /\ req'[s].response = req[s].response
                /\ req'[s].logRow = req[s].logRow
                /\ req'[s].logStatus = "error"
                /\ Cardinality(RowsOfDoc(chunks', req[s].lateInsert.documentId)
                                   \ chunks) = req[s].lateInsert.n]_vars

\* the request failed with a db_insert timeout, its upload log row says error,
\* and the chunks of the file are in the store
C29_Witness ==
    \E s \in Requests :
        /\ Failed(s)
        /\ req[s].response.stage = "db_insert"
        /\ req[s].logRow = "error"
        /\ req[s].lateInsert.state = "landed"
        /\ \E c \in chunks : c.upload = s /\ c.document_id = req[s].lateInsert.documentId

\* the filenames of the files a request has processed
ProcessedNames(s) ==
    { req[s].processedFiles[k].filename : k \in 1 .. Len(req[s].processedFiles) }

\* no filename occurs twice among the processed files of the request
PairwiseDistinct(s) ==
    \A j, k \in 1 .. Len(req[s].processedFiles) :
        req[s].processedFiles[j].filename = req[s].processedFiles[k].filename
            => j = k

\* C30: when a request returns success, with no other request running, its
\* total_chunks is the chunk budget it consumed, every file counted. The rows
\* stored for each of its filenames are those of the last file of that name
\* (an earlier file of the name was replaced), so with pairwise distinct
\* filenames total_chunks is the number of rows stored for its filenames, and
\* with a repeated filename the earlier file is still counted.
C30_TotalChunks ==
    [][\A s \in Requests :
         (req[s].pc = "finish" /\ req'[s].pc = "done"
              /\ req'[s].response.kind = "success") =>
             LET pf == req[s].processedFiles
                 total == req'[s].response.total_chunks
                 stored == UNION { ChunkRows(f) : f \in ProcessedNames(s) }
             IN  /\ total = req[s].totalChunksCreated
                 /\ Len(pf) = req[s].nFiles
                 /\ \A k \in 1 .. Len(pf) : total >= pf[k].chunks
                 /\ \A f \in ProcessedNames(s) :
                      LET e == pf[LastEntryOf(s, f)]
                      IN  /\ Cardinality(ChunkRows(f)) = e.chunks
                          /\ \A c \in ChunkRows(f) :
                               c.upload = req[s].requestId /\ c.fileNo = e.fileNo
                 /\ PairwiseDistinct(s) => total = Cardinality(stored)
                 /\ (~PairwiseDistinct(s)) =>
                      total = Cardinality(stored)
                                + SumChunks(pf, Len(pf))
                                - SumChunks([k \in 1 .. Len(pf) |->
                                               IF k = LastEntryOf(s, pf[k].filename)
                                               THEN pf[k] ELSE [pf[k] EXCEPT !.chunks = 0]],
                                            Len(pf))]_vars

\* a successful request uploaded one filename twice, both files with chunks:
\* total_chunks counts both, the store holds the rows of the later file only
C30_Witness ==
    \E s \in Requests :
        /\ Succeeded(s)
        /\ ~PairwiseDistinct(s)
        /\ \A k \in 1 .. Len(req[s].processedFiles) :
             req[s].processedFiles[k].chunks >= 1
        /\ req[s].response.total_chunks
             > Cardinality(UNION { ChunkRows(f) : f \in ProcessedNames(s) })

\* C12: the blob put and the verification search are fail-soft. Whatever the
\* put's outcome, the request leaves it at stage extract_text with every local
\* as it was (only the note that the put failed differs); whatever the
\* search's outcome, the request goes on to its success response, whose files
\* and total chunk count are those of the processed files; a search that threw
\* or timed out leaves verified_searchable false and the preview null.
C12_FailSoft ==
    [][\A s \in Requests :
         /\ (req[s].pc = "blob" /\ req'[s] # req[s]) =>
                \E failed \in BOOLEAN :
                    req'[s] = [req[s] EXCEPT !.pc = "extract", !.blobFailed = failed]
         /\ (req[s].pc = "verify" /\ req'[s] # req[s]) =>
                \E outcome \in {"found", "empty", "error", "timeout"} :
                    req'[s] = [req[s] EXCEPT !.pc = "finish", !.verify = outcome]
         /\ (req[s].pc = "finish" /\ req'[s] # req[s]) =>
                /\ req'[s].pc = "done"
                /\ req'[s].response.kind = "success"
                /\ req'[s].processedFiles = req[s].processedFiles
                /\ req'[s].response.total_chunks
                       = SumChunks(req[s].processedFiles, Len(req[s].processedFiles))
                /\ req[s].verify \in {"error", "timeout"} =>
                       /\ ~req'[s].response.verified_searchable
                       /\ ~req'[s].response.top_retrieval_preview
      ]_vars

\* a request has succeeded although a blob put failed and the verification
\* search threw or timed out
C12_Witness ==
    \E s \in Requests :
        /\ Succeeded(s)
        /\ req[s].blobFailed
        /\ req[s].verify \in {"error", "timeout"}
        /\ ~req[s].response.verified_searchable
        /\ req[s].response.total_chunks > 0

\* the request has entered POST and has not returned
Running(s) == req[s].pc \notin {"idle", "absent", "done"}

\* C13: a request calls logUpload ('started') once, before any check, and
\* until it returns the row of its requestId is 'started' (or missing, when
\* that write failed) and no update has been made; on every return path it
\* has called updateUploadLog exactly once, with the status of the response
\* it sends, and the row is then that status unless a log write failed, which
\* leaves the response as it is; a row that is 'success' or 'error' never
\* changes again.
C13_UploadLog ==
    /\ [](\A s \in Requests :
            /\ Running(s) =>
                   /\ req[s].logInserts = 1
                   /\ req[s].logUpdates = 0
                   /\ req[s].logRow \in {"none", "started"}
            /\ Done(s) =>
                   /\ req[s].logInserts = 1
                   /\ req[s].logUpdates = 1
                   /\ req[s].logStatus = req[s].response.kind
                   /\ req[s].logRow \in {"none", "started", req[s].response.kind})
    /\ [][\A s \in Requests :
            req[s].logRow \in {"success", "error"} => req'[s].logRow = req[s].logRow
         ]_vars

\* a request has succeeded and its row went from 'started' to 'success'
C13_Witness ==
    \E s \in Requests :
        /\ Succeeded(s)
        /\ req[s].logRow = "success"
        /\ req[s].logUpdates = 1

\* a log write failed (the row is missing or still 'started') and the
\* request has returned its response all the same
C13_FailedWriteWitness ==
    \E s \in Requests : Succeeded(s) /\ req[s].logRow \in {"none", "started"}

\* C14 (as claimed): every failure response carries an error code, the stage
\* at which the request broke and the stage timings accumulated so far (the
\* requestId and a message are in every body).
C14_FailureResponse ==
    \A s \in Requests :
        Failed(s) =>
            /\ req[s].response.code # ""
            /\ req[s].response.stage # ""
            /\ req[s].response.stage_timings

\* C15 (as claimed): every awaited stage of the pipeline runs inside a timeout
\* race, so no request waits for ever on a call that never settles, and a
\* request whose timer won fails with an error that names the stage.
C15_StageTimeouts ==
    \A s \in Requests :
        /\ req[s].pc # "hung"
        /\ Failed(s) /\ req[s].timedOut # "" =>
               req[s].response.message = req[s].timedOut

PastProbe(s) ==
    /\ req[s].pc \notin {"idle", "absent", "await_probe"}
    /\ ~(Failed(s) /\ req[s].response.code \in {"CONFIG_ERROR", "UPLOAD_LOCKED"})

\* C16: the constraint probe is started at most once, also when requests
\* arrive while it is in flight; every request that gets past the await uses
\* the one cached result; when that result is "missing" the request fails with
\* SCHEMA_ERROR and has read, extracted and embedded nothing.
C16_ProbeOnce ==
    /\ Len(probes) <= 1
    /\ \A s \in Requests :
           /\ req[s].pc = "await_probe" => req[s].awaiting = 1 /\ Len(probes) = 1
           /\ PastProbe(s) =>
                  /\ Len(probes) = 1
                  /\ cachedHasConstraint = probes[1]
                  /\ cachedHasConstraint = "true" => hasConstraint
                  /\ IF cachedHasConstraint = "false"
                     THEN /\ Failed(s)
                          /\ req[s].response.code = "SCHEMA_ERROR"
                          /\ req[s].nFiles = 0
                          /\ ~req[s].extracted
                          /\ ~req[s].embedded
                          /\ ~req[s].written
                     ELSE req[s].response.code # "SCHEMA_ERROR"

\* two requests awaited the same probe, which found the constraint missing:
\* one has been answered SCHEMA_ERROR, the other is about to resume
C16_Witness ==
    /\ Len(probes) = 1
    /\ probes[1] = "false"
    /\ constraintCheckPromise = 0
    /\ \E s, t \in Requests :
           /\ Failed(s)
           /\ req[s].response.code = "SCHEMA_ERROR"
           /\ req[t].pc = "await_probe"
           /\ req[t].awaiting = 1

(***************************************************************************)
(* Strings: a string is a sequence of one-character strings                *)
(***************************************************************************)
NL == "\n"
IsSpace(c) == c \in {" ", NL, "\t"}

RECURSIVE Join(_)
\* lines.join('\n')
Join(lines) ==
    IF Len(lines) = 0 THEN << >>
    ELSE IF Len(lines) = 1 THEN lines[1]
    ELSE lines[1] \o <<NL>> \o Join(Tail(lines))

RECURSIVE SplitLines(_, _, _)
\* text.split('\n'): cur is the line being read, from the first position i on
SplitLines(text, i, cur) ==
    IF i > Len(text) THEN <<cur>>
    ELSE IF text[i] = NL THEN <<cur>> \o SplitLines(text, i + 1, << >>)
    ELSE SplitLines(text, i + 1, Append(cur, text[i]))

RECURSIVE TrimStart(_)
TrimStart(str) ==
    IF Len(str) > 0 /\ IsSpace(str[1]) THEN TrimStart(Tail(str)) ELSE str

RECURSIVE TrimEnd(_)
TrimEnd(str) ==
    IF Len(str) > 0 /\ IsSpace(str[Len(str)])
    THEN TrimEnd(SubSeq(str, 1, Len(str) - 1)) ELSE str

\* str.trim()
Trim(str) == TrimEnd(TrimStart(str))

\* str.slice(-n) for n >= 0: the last n characters, and the whole string for
\* n = 0, since -0 is 0
SliceFromEnd(str, n) ==
    IF n = 0 THEN str ELSE SubSeq(str, Max(1, Len(str) - n + 1), Len(str))

(***************************************************************************)
(* Retrieval: searchRunbooks                                               *)
(***************************************************************************)
MIN_KEYWORD_LENGTH == 4
MAX_KEYWORDS == 8

MaxRows == 2
MaxTopK == 2

UpperCase == <<"A", "B", "C", "D", "E", "F", "G", "H", "I", "J", "K", "L", "M",
               "N", "O", "P", "Q", "R", "S", "T", "U", "V", "W", "X", "Y", "Z">>
LowerCase == <<"a", "b", "c", "d", "e", "f", "g", "h", "i", "j", "k", "l", "m",
               "n", "o", "p", "q", "r", "s", "t", "u", "v", "w", "x", "y", "z">>
Digits == <<"0", "1", "2", "3", "4", "5", "6", "7", "8", "9">>

ToLowerChar(c) ==
    IF \E i \in 1 .. Len(UpperCase) : UpperCase[i] = c
    THEN LowerCase[CHOOSE i \in 1 .. Len(UpperCase) : UpperCase[i] = c]
    ELSE c

\* str.toLowerCase()
toLowerCase(str) == [i \in 1 .. Len(str) |-> ToLowerChar(str[i])]

\* a character of the class [a-z0-9]
IsTokenChar(c) ==
    \/ \E i \in 1 .. Len(LowerCase) : LowerCase[i] = c
    \/ \E i \in 1 .. Len(Digits) : Digits[i] = c

RECURSIVE Tokens(_, _, _)
\* str.split(/[^a-z0-9]+/): the maximal runs of token characters, with an empty
\* token where the string starts or ends with a separator
Tokens(str, i, cur) ==
    IF i > Len(str) THEN <<cur>>
    ELSE IF IsTokenChar(str[i]) THEN Tokens(str, i + 1, Append(cur, str[i]))
    ELSE IF i > 1 /\ ~IsTokenChar(str[i - 1]) THEN Tokens(str, i + 1, cur)
    ELSE <<cur>> \o Tokens(str, i + 1, << >>)

RECURSIVE Unique(_, _)
\* Array.from(new Set(tokens)): first occurrences, in order
Unique(tokens, seen) ==
    IF Len(tokens) = 0 THEN << >>
    ELSE IF tokens[1] \in seen THEN Unique(Tail(tokens), seen)
    ELSE <<tokens[1]>> \o Unique(Tail(tokens), seen \cup {tokens[1]})

extractKeywords(queryText) ==
    LET tokens == SelectSeq(Tokens(toLowerCase(queryText), 1, << >>),
                            LAMBDA t : Len(t) >= MIN_KEYWORD_LENGTH)
        unique == Unique(tokens, {})
    IN  SubSeq(unique, 1, Min(MAX_KEYWORDS, Len(unique)))

\* text.includes(keyword)
Includes(text, keyword) ==
    \E i \in 0 .. Len(text) - Len(keyword) :
        SubSeq(text, i + 1, i + Len(keyword)) = keyword

computeKeywordScore(text, keywords) ==
    LET lowerText == toLowerCase(text)
    IN  Len(SelectSeq(keywords, LAMBDA keyword : Includes(lowerText, keyword)))

RECURSIVE Decimal(_)
\* the decimal digits of a non-negative integer, as a template literal prints it
Decimal(n) ==
    IF n < 10 THEN <<Digits[n + 1]>>
    ELSE Decimal(n \div 10) \o <<Digits[(n % 10) + 1]>>

\* `${row.filename}:${row.chunk_index}`
chunkKey(row) == row.filename \o <<":">> \o Decimal(row.chunk_index)

\* Inputs of a search: the query, topK, and the rows the store returns
QueryTexts == { <<"D", "i", "s", "k", " ", "f", "u", "l", "l">>,
                <<"d", "i", "s", "k", ",", " ", "a", " ", "d", "i", "s", "k">> }
RowTexts == { <<"d", "i", "s", "k">>,
              <<"D", "i", "s", "k", " ", "F", "u", "l", "l">> }
RowIds == {1, 2}
RowFilenames == { <<"a">>, <<"b">> }
RowChunkIndexes == {0, 1}
RowDistances == {1, 2}
StoreRows == [id : RowIds, text : RowTexts, chunk_index : RowChunkIndexes,
              filename : RowFilenames, distance : RowDistances]
TopKs == 0 .. MaxTopK

RECURSIVE SeqsUpTo(_, _)
SeqsUpTo(S, n) ==
    IF n = 0 THEN { << >> }
    ELSE LET shorter == SeqsUpTo(S, n - 1)
         IN  shorter \cup { Append(q, x) : q \in { t \in shorter : Len(t) = n - 1 }, x \in S }

\* the dedupe test of the loop; Seen_idOnly forgets the (filename, chunkIndex) key
Seen_idOnly(row, seenIds, seenChunks) == row.id \in seenIds
Seen(row, seenIds, seenChunks) ==
    row.id \in seenIds \/ chunkKey(row) \in seenChunks

Candidate(row, keywords) ==
    [id |-> row.id, text |-> row.text, filename |-> row.filename,
     chunkIndex |-> row.chunk_index, distance |-> row.distance,
     keywordScore |-> computeKeywordScore(row.text, keywords)]

RECURSIVE Dedupe(_, _, _, _)
\* the loop over result.rows
Dedupe(rows, keywords, seenIds, seenChunks) ==
    IF Len(rows) = 0 THEN << >>
    ELSE LET row == rows[1]
         IN  IF Seen(row, seenIds, seenChunks)
             THEN Dedupe(Tail(rows), keywords, seenIds, seenChunks)
             ELSE <<Candidate(row, keywords)>>
                  \o Dedupe(Tail(rows), keywords, seenIds \cup {row.id},
                            seenChunks \cup {chunkKey(row)})

\* the comparator of candidates.sort; Compare_distanceFirst ranks by distance
\* before keyword score
Compare_distanceFirst(a, b) ==
    IF a.distance # b.distance THEN a.distance - b.distance
    ELSE b.keywordScore - a.keywordScore
Compare(a, b) ==
    IF b.keywordScore # a.keywordScore THEN b.keywordScore - a.keywordScore
    ELSE a.distance - b.distance

RECURSIVE InsertSorted(_, _)
\* x goes after every element that does not come after it (the sort is stable)
InsertSorted(sorted, x) ==
    IF Len(sorted) = 0 THEN <<x>>
    ELSE IF Compare(sorted[1], x) <= 0
         THEN <<sorted[1]>> \o InsertSorted(Tail(sorted), x)
         ELSE <<x>> \o sorted

RECURSIVE Sort(_)
Sort(list) ==
    IF Len(list) = 0 THEN << >>
    ELSE InsertSorted(Sort(SubSeq(list, 1, Len(list) - 1)), list[Len(list)])

\* candidates.slice(0, topK) for topK >= 0
Slice(list, topK) == SubSeq(list, 1, Min(topK, Len(list)))

InitSearch ==
    /\ env = [OPENAI_API_KEY |-> TRUE, DATABASE_URL |-> TRUE,
              BLOB_READ_WRITE_TOKEN |-> FALSE, ENABLE_VERIFY_SEARCH |-> FALSE]
    /\ hasConstraint = TRUE
    /\ cachedHasConstraint = "null"
    /\ constraintCheckPromise = 0
    /\ probes = << >>
    /\ documents = {}
    /\ chunks = {}
    /\ req = [s \in Requests |-> IdleReq]
    /\ ck = [pc |-> "off"]
    /\ rl = [pc |-> "off"]
    /\ em = [pc |-> "off"]
    /\ \E queryText \in QueryTexts, topK \in TopKs, rows \in SeqsUpTo(StoreRows, MaxRows) :
           sq = [pc |-> "query", queryText |-> queryText, topK |-> topK,
                 rows |-> rows, keywords |-> << >>, candidates |-> << >>,
                 result |-> << >>]

\* searchRunbooks, from the rows the store returned to the returned list
SearchRunbooks ==
    /\ sq.pc = "query"
    /\ LET keywords == extractKeywords(sq.queryText)
           candidates == Dedupe(sq.rows, keywords, {}, {})
       IN  sq' = [sq EXCEPT !.pc = "done",
                            !.keywords = keywords,
                            !.candidates = candidates,
                            !.result = Slice(Sort(candidates), sq.topK)]
    /\ UNCHANGED <<uploadVars, ck, rl, em>>

NextSearch == SearchRunbooks

SpecSearch == InitSearch /\ [][NextSearch]_vars

SearchDone == sq.pc = "done"

(***************************************************************************)
(* searchRunbooks with its store query                                     *)
(***************************************************************************)
\* the chunks table joined with documents holds up to MaxTableRows rows
MaxTableRows == 27

QueryTopKs == {0, 1, 3, 5, 6}
\* options.filenames: {} stands for no options, no filenames and an empty array
FilenameScopes == SUBSET RowFilenames

\* the table: row i has id and chunk_index i, its document is every row's, or
\* alternates, or changes after the first row; the rows are stored nearest
\* first or nearest last
TableNamings == {"same", "alternate", "first"}
TableOrders == {"nearest_first", "nearest_last"}
TableRow(i, n, naming, order) ==
    [ id |-> i, chunk_index |-> i,
      text |-> IF i % 2 = 0 THEN <<"d", "i", "s", "k">>
               ELSE <<"D", "i", "s", "k", " ", "F", "u", "l", "l">>,
      filename |-> IF naming = "same" \/ (naming = "alternate" /\ i % 2 = 1)
                      \/ (naming = "first" /\ i = 1)
                   THEN <<"a">> ELSE <<"b">>,
      distance |-> IF order = "nearest_first" THEN i ELSE n + 1 - i ]
Table(n, naming, order) == [i \in 1 .. n |-> TableRow(i, n, naming, order)]

\* const candidateK = Math.max(topK * 5, 25)
candidateK(topK) == Max(topK * 5, 25)

InScope_all(filenames, row) == TRUE

\* AND d.filename = ANY($2::text[]), added when options.filenames is not empty
InScope(filenames, row) == filenames = {} \/ row.filename \in filenames

RECURSIVE InsertByDistance(_, _)
InsertByDistance(row, sorted) ==
    IF sorted = << >> THEN <<row>>
    ELSE IF row.distance < Head(sorted).distance THEN <<row>> \o sorted
    ELSE <<Head(sorted)>> \o InsertByDistance(row, Tail(sorted))

RECURSIVE OrderByDistance(_)
\* ORDER BY c.embedding <=> $1::vector
OrderByDistance(rows) ==
    IF rows = << >> THEN << >>
    ELSE InsertByDistance(Head(rows), OrderByDistance(Tail(rows)))

\* the SELECT of searchRunbooks: WHERE, ORDER BY, LIMIT
SelectNearest(table, filenames, limit) ==
    LET scoped == SelectSeq(table, LAMBDA row : InScope(filenames, row))
        ordered == OrderByDistance(scoped)
    IN  SubSeq(ordered, 1, Min(limit, Len(ordered)))

InitQuery ==
    /\ env = [OPENAI_API_KEY |-> TRUE, DATABASE_URL |-> TRUE,
              BLOB_READ_WRITE_TOKEN |-> FALSE, ENABLE_VERIFY_SEARCH |-> FALSE]
    /\ hasConstraint = TRUE
    /\ cachedHasConstraint = "null"
    /\ constraintCheckPromise = 0
    /\ probes = << >>
    /\ documents = {}
    /\ chunks = {}
    /\ req = [s \in Requests |-> IdleReq]
    /\ ck = [pc |-> "off"]
    /\ rl = [pc |-> "off"]
    /\ em = [pc |-> "off"]
    /\ \E queryText \in QueryTexts, topK \in QueryTopKs, filenames \in FilenameScopes,
          n \in 0 .. MaxTableRows, naming \in TableNamings, order \in TableOrders :
           sq = [pc |-> "store", queryText |-> queryText, topK |-> topK,
                 filenames |-> filenames, table |-> Table(n, naming, order),
                 limit |-> 0, rows |-> << >>, keywords |-> << >>,
                 candidates |-> << >>, result |-> << >>]

\* searchRunbooks up to the rows the store returns
StoreQuery ==
    /\ sq.pc = "store"
    /\ sq' = [sq EXCEPT !.pc = "query",
                        !.limit = candidateK(sq.topK),
                        !.rows = SelectNearest(sq.table, sq.filenames,
                                               candidateK(sq.topK))]
    /\ UNCHANGED <<uploadVars, ck, rl, em>>

NextQuery == StoreQuery \/ SearchRunbooks

SpecQuery == InitQuery /\ [][NextQuery]_vars

\* C25: searchRunbooks asks the store for max(topK*5, 25) rows at most, the
\* nearest of the scope; it returns at most topK entries; with a non-empty
\* filename scope every returned entry's filename is in the scope.
C25_CandidateWindow ==
    (sq.pc \in {"query", "done"} /\ sq.limit > 0) =>
        /\ sq.limit >= 25 /\ sq.limit >= 5 * sq.topK
        /\ sq.limit = 25 \/ sq.limit = 5 * sq.topK
        /\ Len(sq.rows) <= sq.limit
        /\ \A k \in 1 .. Len(sq.table) :
               (\A i \in 1 .. Len(sq.rows) : sq.rows[i].id # sq.table[k].id) =>
                   \/ sq.filenames # {} /\ sq.table[k].filename \notin sq.filenames
                   \/ /\ Len(sq.rows) = sq.limit
                      /\ \A i \in 1 .. Len(sq.rows) :
                             sq.rows[i].distance <= sq.table[k].distance
        /\ SearchDone =>
               /\ Len(sq.result) <= sq.topK
               /\ sq.filenames # {} =>
                      \A i \in 1 .. Len(sq.result) :
                          sq.result[i].filename \in sq.filenames

\* the table holds more rows of the scope than the limit, and rows outside
\* the scope nearer than those returned: the search returned topK entries
C25_Witness ==
    /\ SearchDone
    /\ sq.limit = 25
    /\ Len(sq.rows) = 25
    /\ sq.filenames = { <<"b">> }
    /\ Len(sq.table) > 25
    /\ sq.table[1].filename = <<"a">>
    /\ sq.topK = 3
    /\ Len(sq.result) = 3

\* C8: whatever rows the store returned, duplicates included, the list
\* searchRunbooks returns has no two entries with the same chunk id and no
\* two entries with the same (filename, chunkIndex) pair.
C8_SearchDedup ==
    SearchDone =>
        \A i, j \in 1 .. Len(sq.result) :
            i # j =>
                /\ sq.result[i].id # sq.result[j].id
                /\ <<sq.result[i].filename, sq.result[i].chunkIndex>>
                       # <<sq.result[j].filename, sq.result[j].chunkIndex>>

\* a search whose rows repeat a (filename, chunk_index) pair under two ids,
\* with topK large enough to return both rows, and which returns one
C8_Witness ==
    /\ SearchDone
    /\ Len(sq.rows) = 2
    /\ sq.topK >= 2
    /\ sq.rows[1].id # sq.rows[2].id
    /\ sq.rows[1].filename = sq.rows[2].filename
    /\ sq.rows[1].chunk_index = sq.rows[2].chunk_index
    /\ Len(sq.result) = 1

\* a ranks strictly before b: higher keyword score, or the same score and a
\* smaller distance
RanksBefore(a, b) ==
    \/ a.keywordScore > b.keywordScore
    \/ a.keywordScore = b.keywordScore /\ a.distance < b.distance

\* C9: the returned list is the first topK of the deduplicated candidates
\* ordered by keyword score descending, then distance ascending: it has
\* min(topK, candidates) entries, all of them candidates, no later entry
\* ranks strictly before an earlier one (so a higher keyword score comes first
\* whatever the distances), and no candidate left out ranks strictly before a
\* returned one.
C9_RerankOrder ==
    SearchDone =>
        LET res == sq.result
            cands == sq.candidates
            returned == { res[i].id : i \in 1 .. Len(res) }
        IN  /\ Len(res) = Min(sq.topK, Len(cands))
            /\ \A i \in 1 .. Len(res) : \E k \in 1 .. Len(cands) : cands[k] = res[i]
            /\ \A i, j \in 1 .. Len(res) : i < j => ~RanksBefore(res[j], res[i])
            /\ \A i, j \in 1 .. Len(res) :
                   res[i].keywordScore > res[j].keywordScore => i < j
            /\ \A k \in 1 .. Len(cands) :
                   cands[k].id \notin returned =>
                       \A i \in 1 .. Len(res) : ~RanksBefore(cands[k], res[i])

\* two candidates and topK = 1: the one returned has the higher keyword score
\* and the larger distance, and the store returned it second
C9_Witness ==
    /\ SearchDone
    /\ sq.topK = 1
    /\ Len(sq.candidates) = 2
    /\ Len(sq.result) = 1
    /\ sq.result[1] = sq.candidates[2]
    /\ sq.result[1].keywordScore > sq.candidates[1].keywordScore
    /\ sq.result[1].distance > sq.candidates[1].distance

(***************************************************************************)
(* Heading-aware chunking: chunkMarkdownWithHeadings                       *)
(***************************************************************************)
MAX_HEADING_LEVEL == 6

MaxTextLen == 6

\* headingRegex.test(line), for /^#{1,6}\s+/
IsHeading(line) ==
    \E k \in 1 .. MAX_HEADING_LEVEL :
        /\ k < Len(line)
        /\ \A i \in 1 .. k : line[i] = "#"
        /\ IsSpace(line[k + 1])

\* the chunk a heading starts; HeadingStart_overlap carries overlap text into
\* it as the size branch does
HeadingStart_overlap(currentChunk, line, overlap) ==
    LET joined == Join(currentChunk)
        overlapText == SliceFromEnd(joined, Min(overlap, Len(joined)))
    IN  IF Len(overlapText) > 0 THEN <<overlapText, line>> ELSE <<line>>
HeadingStart(currentChunk, line, overlap) == <<line>>

\* The state of the loop: chunks, currentChunk and currentSize are the code's;
\* origin records, for every chunk pushed, the array it was joined from, the
\* number of its leading elements that are overlap text, and the source lines
\* (first .. last) pushed into it; carried and first are those of currentChunk.
LoopStart ==
    [chunks |-> << >>, currentChunk |-> << >>, currentSize |-> 0,
     origin |-> << >>, carried |-> 0, first |-> 1]

Pushed(st, i) ==
    [st EXCEPT !.chunks = Append(st.chunks, Trim(Join(st.currentChunk))),
               !.origin = Append(st.origin,
                                 [raw |-> st.currentChunk, carried |-> st.carried,
                                  first |-> st.first, last |-> i - 1])]

\* one iteration of the loop, for line i
LoopStep(st, line, i, maxChunkSize, overlap) ==
    LET isHeading == IsHeading(line)
        lineSize == Len(line) + 1
    IN  IF isHeading /\ Len(st.currentChunk) > 0
        THEN LET started == HeadingStart(st.currentChunk, line, overlap)
             IN  [Pushed(st, i) EXCEPT !.currentChunk = started,
                                       !.currentSize = lineSize,
                                       !.carried = Len(started) - 1,
                                       !.first = i]
        ELSE LET flush == st.currentSize + lineSize > maxChunkSize
                              /\ Len(st.currentChunk) > 0
                 joined == Join(st.currentChunk)
                 overlapChars == Min(overlap, Len(joined))
                 overlapText == SliceFromEnd(joined, overlapChars)
                 restart == IF Len(overlapText) > 0 THEN <<overlapText>> ELSE << >>
                 s1 == IF flush
                       THEN [Pushed(st, i) EXCEPT !.currentChunk = restart,
                                                  !.currentSize = Len(Join(restart)),
                                                  !.carried = Len(restart),
                                                  !.first = i]
                       ELSE st
             IN  [s1 EXCEPT !.currentChunk = Append(s1.currentChunk, line),
                            !.currentSize = s1.currentSize + lineSize]

RECURSIVE Loop(_, _, _, _, _)
Loop(st, lines, i, maxChunkSize, overlap) ==
    IF i > Len(lines) THEN st
    ELSE Loop(LoopStep(st, lines[i], i, maxChunkSize, overlap),
              lines, i + 1, maxChunkSize, overlap)

\* the loop, the final chunk, and the filter of empty chunks
chunkMarkdownWithHeadings(text, maxChunkSize, overlap) ==
    LET lines == SplitLines(text, 1, << >>)
        st == Loop(LoopStart, lines, 1, maxChunkSize, overlap)
        end == IF Len(st.currentChunk) > 0 THEN Pushed(st, Len(lines) + 1) ELSE st
    IN  [lines |-> lines, pushed |-> end.chunks, origin |-> end.origin,
         chunks |-> SelectSeq(end.chunks, LAMBDA chunk : Len(chunk) > 0)]

\* Inputs of a chunking: the text and the two size parameters
TextChars == {"#", " ", "a", NL}
Texts == SeqsUpTo(TextChars, MaxTextLen)
ChunkSizes == {2, 4}
Overlaps == {0, 1, 2}

(***************************************************************************)
(* Simple chunking: chunkTextSimple, one step per iteration of its loop    *)
(***************************************************************************)
MaxSimpleLen == 9

\* str.slice(from, to) with 0-based positions; a negative position counts
\* from the end
SlicePos(str, p) == IF p < 0 THEN Max(Len(str) + p, 0) ELSE Min(p, Len(str))
JsSlice(str, from, to) == SubSeq(str, SlicePos(str, from) + 1, SlicePos(str, to))

\* str.lastIndexOf(c): 0-based, -1 when c does not occur
lastIndexOf(str, c) ==
    LET at == { i \in 1 .. Len(str) : str[i] = c }
    IN  IF at = {} THEN -1 ELSE (CHOOSE i \in at : \A j \in at : j <= i) - 1

\* breakPoint > start + maxChunkSize * 0.5, where breakPoint is an index into
\* the window's chunk and start a position of the text
BreakTest(breakPoint, start, maxChunkSize) ==
    2 * breakPoint > 2 * start + maxChunkSize

\* the next value of start in the branch that breaks at breakPoint
NextStart_minus(start, breakPoint, overlap) == start + breakPoint - 1 - overlap
NextStart_plus(start, breakPoint, overlap) == start + breakPoint + 1 + overlap
NextStart(start, breakPoint, overlap) == start + breakPoint + 1 - overlap

SimpleChars == {"a", ".", NL}
SimpleTexts == SeqsUpTo(SimpleChars, MaxSimpleLen)
SimpleSizes == {3, 5}
SimpleOverlaps == {0, 1}

\* one iteration of the while loop
SimpleWindow ==
    /\ ck.pc = "window"
    /\ ck.start < Len(ck.text)
    /\ LET start == ck.start
           end == Min(start + ck.maxChunkSize, Len(ck.text))
           window == JsSlice(ck.text, start, end)
           breakPoint == Max(lastIndexOf(window, "."), lastIndexOf(window, NL))
           breaks == end < Len(ck.text) /\ BreakTest(breakPoint, start, ck.maxChunkSize)
           chunk == IF breaks THEN JsSlice(ck.text, start, start + breakPoint + 1)
                    ELSE window
           next == IF end < Len(ck.text)
                   THEN IF breaks THEN NextStart(start, breakPoint, ck.overlap)
                        ELSE end - ck.overlap
                   ELSE end
           kept == Len(Trim(chunk)) > 0
       IN  ck' = [ck EXCEPT
                     !.start = next,
                     !.chunks = IF kept THEN Append(@, Trim(chunk)) ELSE @,
                     !.windows = Append(@, [start |-> start, end |-> end,
                                            chunk |-> chunk, kept |-> kept])]
    /\ UNCHANGED <<uploadVars, sq, rl, em>>

\* the loop ends and chunks is returned
SimpleReturn ==
    /\ ck.pc = "window"
    /\ ck.start >= Len(ck.text)
    /\ ck' = [ck EXCEPT !.pc = "returned"]
    /\ UNCHANGED <<uploadVars, sq, rl, em>>

InitChunk ==
    /\ env = [OPENAI_API_KEY |-> TRUE, DATABASE_URL |-> TRUE,
              BLOB_READ_WRITE_TOKEN |-> FALSE, ENABLE_VERIFY_SEARCH |-> FALSE]
    /\ hasConstraint = TRUE
    /\ cachedHasConstraint = "null"
    /\ constraintCheckPromise = 0
    /\ probes = << >>
    /\ documents = {}
    /\ chunks = {}
    /\ req = [s \in Requests |-> IdleReq]
    /\ sq = [pc |-> "off"]
    /\ rl = [pc |-> "off"]
    /\ em = [pc |-> "off"]
    /\ \/ \E text \in Texts, maxChunkSize \in ChunkSizes, overlap \in Overlaps :
              ck = [pc |-> "text", text |-> text, maxChunkSize |-> maxChunkSize,
                    overlap |-> overlap, lines |-> << >>, pushed |-> << >>,
                    origin |-> << >>, chunks |-> << >>]
       \/ \E text \in SimpleTexts, maxChunkSize \in SimpleSizes,
             overlap \in SimpleOverlaps :
              ck = [pc |-> "window", text |-> text, maxChunkSize |-> maxChunkSize,
                    overlap |-> overlap, start |-> 0, chunks |-> << >>,
                    windows |-> << >>]

\* chunkText(text, true, maxChunkSize, overlap)
ChunkMarkdown ==
    /\ ck.pc = "text"
    /\ LET out == chunkMarkdownWithHeadings(ck.text, ck.maxChunkSize, ck.overlap)
       IN  ck' = [ck EXCEPT !.pc = "done", !.lines = out.lines,
                            !.pushed = out.pushed, !.origin = out.origin,
                            !.chunks = out.chunks]
    /\ UNCHANGED <<uploadVars, sq, rl, em>>

NextChunk == ChunkMarkdown \/ SimpleWindow \/ SimpleReturn

SpecChunk == InitChunk /\ [][NextChunk]_vars

ChunkDone == ck.pc = "done"

\* the section of source line i: the number of heading lines up to it
Section(lines, i) == Cardinality({ j \in 1 .. i : IsHeading(lines[j]) })

RECURSIVE ContentSections(_, _, _)
\* the sections chunk k has content from: those of its source lines and, when
\* it begins with overlap text, those of the chunk the text was cut from
ContentSections(lines, origin, k) ==
    { Section(lines, i) : i \in origin[k].first .. origin[k].last }
        \cup (IF origin[k].carried > 0 /\ k > 1
              THEN ContentSections(lines, origin, k - 1) ELSE {})

\* C10: in heading-aware chunking every line matching the heading pattern
\* starts a new chunk with no overlap text carried into it, a heading line is
\* the first line of the chunk that contains it (no source line after a
\* chunk's first, and no line after the first of a returned chunk, matches
\* the pattern), and no chunk after the first has content from two sections.
C10_HeadingBoundary ==
    ChunkDone =>
        /\ \A i \in 1 .. Len(ck.lines) :
               IsHeading(ck.lines[i]) =>
                   \E k \in 1 .. Len(ck.origin) :
                       /\ ck.origin[k].first = i
                       /\ ck.origin[k].carried = 0
                       /\ ck.origin[k].raw[1] = ck.lines[i]
        /\ \A k \in 1 .. Len(ck.origin) :
               \A i \in ck.origin[k].first + 1 .. ck.origin[k].last :
                   ~IsHeading(ck.lines[i])
        /\ \A k \in 1 .. Len(ck.chunks) :
               LET chunkLines == SplitLines(ck.chunks[k], 1, << >>)
               IN  \A n \in 2 .. Len(chunkLines) : ~IsHeading(chunkLines[n])
        /\ \A k \in 2 .. Len(ck.origin) :
               Cardinality(ContentSections(ck.lines, ck.origin, k)) <= 1

\* a text with content before a heading that is not its first line, chunked
\* with a positive overlap: the heading's chunk follows a non-empty chunk
C10_Witness ==
    /\ ChunkDone
    /\ ck.overlap > 0
    /\ \E k \in 2 .. Len(ck.origin) :
           /\ IsHeading(ck.lines[ck.origin[k].first])
           /\ Len(ck.pushed[k - 1]) > 0
           /\ Len(ck.pushed[k]) > 0

SimpleReturned == ck.pc = "returned"

\* the windows of a simple chunking whose chunk was emitted
KeptWindows == SelectSeq(ck.windows, LAMBDA w : w.kept)

RECURSIVE LineStart(_, _)
\* the 0-based position in the text where line i starts
LineStart(lines, i) ==
    IF i = 1 THEN 0 ELSE LineStart(lines, i - 1) + Len(lines[i - 1]) + 1

\* the pushed chunks of a heading-aware chunking that were emitted
Emitted == { k \in 1 .. Len(ck.origin) : Len(ck.pushed[k]) > 0 }

\* where the text a heading-mode chunk was joined from begins in the source,
\* its overlap text included: the joined text ends with the chunk's last line
TextBegin(k) ==
    LineStart(ck.lines, ck.origin[k].last + 1) - 1 - Len(Join(ck.origin[k].raw))

\* where the first line chunk k itself takes from the source begins
OwnBegin(k) == LineStart(ck.lines, ck.origin[k].first)

\* every non-whitespace character of the text lies in an emitted chunk, and
\* every emitted chunk is the trimmed text of its window
SimpleCovers ==
    /\ \A p \in 0 .. Len(ck.text) - 1 :
           ~IsSpace(ck.text[p + 1]) =>
               \E n \in 1 .. Len(KeptWindows) :
                   /\ KeptWindows[n].start <= p
                   /\ p < KeptWindows[n].start + Len(KeptWindows[n].chunk)
    /\ Len(ck.chunks) = Len(KeptWindows)
    /\ \A n \in 1 .. Len(KeptWindows) :
           /\ ck.chunks[n] = Trim(KeptWindows[n].chunk)
           /\ KeptWindows[n].chunk
                  = SubSeq(ck.text, KeptWindows[n].start + 1,
                           KeptWindows[n].start + Len(KeptWindows[n].chunk))

\* every line of the text, up to surrounding whitespace, occurs in the
\* emitted chunk that took it, and every chunk is joined from a stretch of
\* the source
HeadingCovers ==
    /\ \A i \in 1 .. Len(ck.lines) :
           Len(Trim(ck.lines[i])) > 0 =>
               \E k \in Emitted :
                   /\ ck.origin[k].first <= i /\ i <= ck.origin[k].last
                   /\ Includes(ck.pushed[k], Trim(ck.lines[i]))
    /\ \A k \in 1 .. Len(ck.origin) :
           /\ TextBegin(k) >= 0
           /\ Join(ck.origin[k].raw)
                  = SubSeq(ck.text, TextBegin(k) + 1,
                           TextBegin(k) + Len(Join(ck.origin[k].raw)))
           /\ ck.pushed[k] = Trim(Join(ck.origin[k].raw))

SimpleOrdered ==
    \A m, n \in 1 .. Len(KeptWindows) :
        m < n => KeptWindows[m].start < KeptWindows[n].start

\* C11: in both modes the chunks cover the text (every non-whitespace
\* character in simple mode, every line in heading-aware mode) and chunk i
\* begins in the source strictly before chunk i+1, where a chunk begins
\* where its text begins, overlap text included.
C11_ChunkOrder ==
    /\ SimpleReturned => SimpleCovers /\ SimpleOrdered
    /\ ChunkDone =>
           /\ HeadingCovers
           /\ \A k, l \in Emitted : k < l => TextBegin(k) < TextBegin(l)

\* C11 as amended: as C11, but in heading-aware mode the position compared is
\* that of the first line the chunk itself takes from the source, after any
\* overlap text it begins with.
C11_ChunkOrderOwn ==
    /\ SimpleReturned => SimpleCovers /\ SimpleOrdered
    /\ ChunkDone =>
           /\ HeadingCovers
           /\ \A k, l \in Emitted : k < l => OwnBegin(k) < OwnBegin(l)

\* a heading-aware chunking that emitted two chunks beginning at the same
\* source position: the second starts with the whole first as overlap text
C11_Witness ==
    /\ ChunkDone
    /\ \E k, l \in Emitted :
           /\ l = k + 1
           /\ ck.origin[l].carried > 0
           /\ TextBegin(k) = TextBegin(l)
           /\ OwnBegin(k) < OwnBegin(l)


\* C18 (as claimed): in non-heading mode, for every window that does not reach
\* the end of the text: if the last period or newline of the window lies
\* beyond half of the window, counted from the window's start, the chunk ends
\* right after that character, otherwise the chunk is the whole window.
C18_SentenceBreak ==
    ck.pc \in {"window", "returned"} =>
        \A k \in 1 .. Len(ck.windows) :
            LET w == ck.windows[k]
                window == JsSlice(ck.text, w.start, w.end)
                last == Max(lastIndexOf(window, "."), lastIndexOf(window, NL))
            IN  w.end < Len(ck.text) =>
                    w.chunk = IF 2 * last > ck.maxChunkSize
                              THEN JsSlice(ck.text, w.start, w.start + last + 1)
                              ELSE window

\* C19 (as claimed): every chunk chunkText returns, in heading mode or not, has
\* a trimmed length of at least 1 and at most maxChunkSize characters.
C19_ChunkBounds ==
    ChunkDone \/ SimpleReturned =>
        \A k \in 1 .. Len(ck.chunks) :
            /\ Len(Trim(ck.chunks[k])) >= 1
            /\ Len(Trim(ck.chunks[k])) <= ck.maxChunkSize

\* the same bounds for the non-heading mode alone
C19_SimpleBounds ==
    SimpleReturned =>
        \A k \in 1 .. Len(ck.chunks) :
            /\ Len(Trim(ck.chunks[k])) >= 1
            /\ Len(Trim(ck.chunks[k])) <= ck.maxChunkSize

\* the lower bound alone, in both modes
C19_NonEmpty ==
    ChunkDone \/ SimpleReturned =>
        \A k \in 1 .. Len(ck.chunks) : Len(Trim(ck.chunks[k])) >= 1

\* C26: chunkTextSimple terminates when 0 <= overlap < maxChunkSize / 2: every
\* iteration moves the window start strictly forward, the start never passes
\* the end of the text, so the loop makes at most one iteration per character
\* and then returns.
C26_SimpleTerminates ==
    /\ [](ck.pc \in {"window", "returned"} /\ 2 * ck.overlap < ck.maxChunkSize =>
            /\ ck.start <= Len(ck.text)
            /\ Len(ck.windows) <= Len(ck.text)
            /\ ck.pc = "returned" => ck.start = Len(ck.text))
    /\ [][(ck.pc = "window" /\ 2 * ck.overlap < ck.maxChunkSize
              /\ ck'.windows # ck.windows) =>
               ck'.start > ck.start]_vars

\* a text of three windows with a positive overlap has been chunked: one
\* window was broken at a sentence end, one at the window edge
C26_Witness ==
    /\ SimpleReturned
    /\ ck.overlap > 0
    /\ Len(ck.windows) >= 3
    /\ \E k \in 1 .. Len(ck.windows) :
           ck.windows[k].end < Len(ck.text)
               /\ Len(ck.windows[k].chunk) < ck.maxChunkSize
    /\ \E k \in 1 .. Len(ck.windows) :
           ck.windows[k].end < Len(ck.text)
               /\ Len(ck.windows[k].chunk) = ck.maxChunkSize

(***************************************************************************)
(* lib/rateLimit.ts: the in-memory rate limiter                            *)
(***************************************************************************)
\* the clock runs from 0 to MaxTime, and at most MaxCalls calls are made
MaxTime == 3
MaxCalls == 4

IPs == {"10.0.0.1", "10.0.0.2"}
MaxRequestsChoices == {1, 2}
WindowMsChoices == {1, 2}

\* rateLimitStore.get(ip) of an ip the Map does not hold
NoEntry == [present |-> FALSE, count |-> 0, resetTime |-> 0]

Expired_atReset(entry, now) == ~entry.present \/ now >= entry.resetTime

\* !entry || now > entry.resetTime
Expired(entry, now) == ~entry.present \/ now > entry.resetTime

checkRateLimit(store, ip, maxRequests, windowMs, now) ==
    LET entry == store[ip]
    IN  IF Expired(entry, now)
        THEN LET resetTime == now + windowMs
             IN  [store |-> [store EXCEPT ![ip] = [present |-> TRUE, count |-> 1,
                                                   resetTime |-> resetTime]],
                  result |-> [allowed |-> TRUE, remaining |-> maxRequests - 1,
                              resetTime |-> resetTime]]
        ELSE IF entry.count >= maxRequests
        THEN [store |-> store,
              result |-> [allowed |-> FALSE, remaining |-> 0,
                          resetTime |-> entry.resetTime]]
        ELSE [store |-> [store EXCEPT ![ip].count = @ + 1],
              result |-> [allowed |-> TRUE,
                          remaining |-> maxRequests - (entry.count + 1),
                          resetTime |-> entry.resetTime]]

InitRate ==
    /\ env = [OPENAI_API_KEY |-> TRUE, DATABASE_URL |-> TRUE,
              BLOB_READ_WRITE_TOKEN |-> FALSE, ENABLE_VERIFY_SEARCH |-> FALSE]
    /\ hasConstraint = TRUE
    /\ cachedHasConstraint = "null"
    /\ constraintCheckPromise = 0
    /\ probes = << >>
    /\ documents = {}
    /\ chunks = {}
    /\ req = [s \in Requests |-> IdleReq]
    /\ sq = [pc |-> "off"]
    /\ ck = [pc |-> "off"]
    /\ em = [pc |-> "off"]
    /\ \E maxRequests \in MaxRequestsChoices, windowMs \in WindowMsChoices :
           rl = [pc |-> "on", now |-> 0, maxRequests |-> maxRequests,
                 windowMs |-> windowMs, store |-> [ip \in IPs |-> NoEntry],
                 calls |-> << >>]

\* Date.now() advances
Tick ==
    /\ rl.pc = "on"
    /\ rl.now < MaxTime
    /\ rl' = [rl EXCEPT !.now = @ + 1]
    /\ UNCHANGED <<uploadVars, sq, ck, em>>

\* a route calls checkRateLimit(ip, maxRequests, windowMs)
CheckRateLimit(ip) ==
    /\ rl.pc = "on"
    /\ Len(rl.calls) < MaxCalls
    /\ LET out == checkRateLimit(rl.store, ip, rl.maxRequests, rl.windowMs, rl.now)
       IN  rl' = [rl EXCEPT !.store = out.store,
                            !.calls = Append(@, [ip |-> ip, at |-> rl.now,
                                                 result |-> out.result,
                                                 before |-> rl.store[ip],
                                                 after |-> out.store[ip]])]
    /\ UNCHANGED <<uploadVars, sq, ck, em>>

\* the setInterval callback: entries whose window is over are deleted
Cleanup ==
    /\ rl.pc = "on"
    /\ \E ip \in IPs : rl.store[ip].present /\ rl.now > rl.store[ip].resetTime
    /\ rl' = [rl EXCEPT !.store =
                [ip \in IPs |-> IF rl.now > rl.store[ip].resetTime
                                THEN NoEntry ELSE rl.store[ip]]]
    /\ UNCHANGED <<uploadVars, sq, ck, em>>

NextRate ==
    \/ Tick
    \/ \E ip \in IPs : CheckRateLimit(ip)
    \/ Cleanup

SpecRate == InitRate /\ [][NextRate]_vars

\* the call opened a window: the entry it left has a resetTime the entry it
\* found did not have
OpensWindow(c) ==
    c.after.present /\ (~c.before.present \/ c.after.resetTime # c.before.resetTime)

AllowedInWindow(i) ==
    { j \in i .. Len(rl.calls) :
          /\ rl.calls[j].ip = rl.calls[i].ip
          /\ rl.calls[j].result.allowed
          /\ rl.calls[j].at <= rl.calls[i].after.resetTime }

\* C17: for each IP at most maxRequests calls are allowed from the call that
\* opens a window up to the window's resetTime; a denied call leaves the stored
\* count and resetTime as they were; the first call after resetTime has passed
\* is allowed and leaves a fresh entry with count 1.
C17_RateLimit ==
    /\ [](rl.pc = "on" =>
            \A i \in 1 .. Len(rl.calls) :
                OpensWindow(rl.calls[i]) =>
                    Cardinality(AllowedInWindow(i)) <= rl.maxRequests)
    /\ [][rl.pc = "on" /\ Len(rl'.calls) = Len(rl.calls) + 1 =>
            LET c == rl'.calls[Len(rl'.calls)]
            IN  /\ ~c.result.allowed => rl'.store = rl.store
                /\ rl.store[c.ip].present /\ c.at > rl.store[c.ip].resetTime =>
                       /\ c.result.allowed
                       /\ rl'.store[c.ip] = [present |-> TRUE, count |-> 1,
                                             resetTime |-> c.at + rl.windowMs]]_vars

\* a call is denied, and after the window's resetTime a call for the same IP
\* is allowed again in a fresh window
C17_Witness ==
    /\ rl.pc = "on"
    /\ \E i, j \in 1 .. Len(rl.calls) :
           /\ i < j
           /\ ~rl.calls[i].result.allowed
           /\ rl.calls[j].ip = rl.calls[i].ip
           /\ rl.calls[j].at > rl.calls[i].result.resetTime
           /\ rl.calls[j].before.present
           /\ rl.calls[j].result.allowed
           /\ rl.calls[j].after.count = 1


(***************************************************************************)
(* Stage embed, batch by batch: the batch loop of POST for one file        *)
(***************************************************************************)
\* the loop is run on arrays of up to MaxEmbedTexts chunks. The chunk cap
\* lets at most MAX_CHUNKS_PER_UPLOAD chunks of a file through, which is one
\* batch; the longer arrays make the loop take more than one turn
MaxEmbedTexts == 301

EmbedLengths ==
    {0, 1, MAX_CHUNKS_PER_UPLOAD, EMBEDDING_BATCH_SIZE, EMBEDDING_BATCH_SIZE + 1,
     2 * EMBEDDING_BATCH_SIZE, 2 * EMBEDDING_BATCH_SIZE + 1, MaxEmbedTexts}

InitEmbed ==
    /\ env = [OPENAI_API_KEY |-> TRUE, DATABASE_URL |-> TRUE,
              BLOB_READ_WRITE_TOKEN |-> FALSE, ENABLE_VERIFY_SEARCH |-> FALSE]
    /\ hasConstraint = TRUE
    /\ cachedHasConstraint = "null"
    /\ constraintCheckPromise = 0
    /\ probes = << >>
    /\ documents = {}
    /\ chunks = {}
    /\ req = [s \in Requests |-> IdleReq]
    /\ sq = [pc |-> "off"]
    /\ ck = [pc |-> "off"]
    /\ rl = [pc |-> "off"]
    /\ \E n \in EmbedLengths :
           em = [pc |-> "loop", n |-> n, i |-> 0, pending |-> {}, out |-> << >>,
                 calls |-> {}, allEmbeddings |-> << >>, stage |-> ""]

\* concurrentBatches.map(batch => withTimeout(createEmbeddingsBatch(batch), ...)):
\* every batch of the group is called, then Promise.all is awaited
EmbedStartGroup ==
    /\ em.pc = "loop"
    /\ em.i < NumBatches(em.n)
    /\ LET group == em.i .. GroupLast(em.i, em.n)
       IN  em' = [em EXCEPT !.pc = "await",
                            !.pending = group,
                            !.out = [b \in group |-> "pending"],
                            !.calls = @ \cup { [batch |-> b, texts |-> BatchLen(em.n, b)]
                                                  : b \in group }]
    /\ UNCHANGED <<uploadVars, sq, ck, rl>>

\* one batch of the group settles, in any order; a rejection or a timer that
\* wins rejects Promise.all at once, and the batches still running are no
\* longer awaited
EmbedBatchSettle(b) ==
    /\ em.pc = "await"
    /\ b \in em.pending
    /\ \E outcome \in {"ok", "short", "long", "error", "timeout"} :
         IF outcome \in {"error", "timeout"}
         THEN em' = [em EXCEPT !.pc = "failed", !.pending = {},
                               !.stage = IF outcome = "timeout" THEN "embed"
                                         ELSE "unknown"]
         ELSE em' = [em EXCEPT !.pending = @ \ {b}, !.out[b] = outcome]
    /\ UNCHANGED <<uploadVars, sq, ck, rl>>

\* Promise.all resolves: the results are flattened in batch order
EmbedGroupDone ==
    /\ em.pc = "await"
    /\ em.pending = {}
    /\ em' = [em EXCEPT !.pc = "loop",
                        !.allEmbeddings =
                            @ \o Flatten(em.n, em.i, GroupLast(em.i, em.n), em.out),
                        !.i = @ + EMBEDDING_CONCURRENCY]
    /\ UNCHANGED <<uploadVars, sq, ck, rl>>

\* the loop is over: the count check
EmbedLoopEnd ==
    /\ em.pc = "loop"
    /\ em.i >= NumBatches(em.n)
    /\ em' = [em EXCEPT !.pc = IF CountMismatch(em.allEmbeddings, em.n)
                               THEN "failed" ELSE "done",
                        !.stage = IF CountMismatch(em.allEmbeddings, em.n)
                                  THEN "unknown" ELSE @]
    /\ UNCHANGED <<uploadVars, sq, ck, rl>>

NextEmbed ==
    \/ EmbedStartGroup
    \/ \E b \in 0 .. NumBatches(MaxEmbedTexts) : EmbedBatchSettle(b)
    \/ EmbedGroupDone
    \/ EmbedLoopEnd

SpecEmbed == InitEmbed /\ [][NextEmbed]_vars

\* C21: during a file's embedding stage no call carries more than 100 texts,
\* never more than 2 batches are awaited at once, and batches are started
\* only when no batch of an earlier group is still awaited.
C21_EmbedCaps ==
    /\ [](em.pc # "off" =>
            /\ Cardinality(em.pending) <= EMBEDDING_CONCURRENCY
            /\ \A c \in em.calls : c.texts >= 1 /\ c.texts <= EMBEDDING_BATCH_SIZE)
    /\ [][(em.pc # "off" /\ em'.calls # em.calls) =>
              em.pc = "loop" /\ em.pending = {}]_vars

\* a second group of two batches is awaited after the first group resolved
C21_Witness ==
    /\ em.pc = "await"
    /\ Cardinality(em.pending) = 2
    /\ em.i = 2
    /\ Len(em.allEmbeddings) = EMBEDDING_CONCURRENCY * EMBEDDING_BATCH_SIZE

====
